---- MODULE Spec2Model ----
(***************************************************************************)
(* A model of zmwangx/storyboard: the image tiler of storyboard.py, the    *)
(* Video metadata object of metadata.py (construction, scan type, SHA-1    *)
(* digest) and the StoryBoard object of storyboard.py.                      *)
(*                                                                         *)
(* Each part has its own specification over its own variables; the         *)
(* variables of the other parts stay at their initial values.              *)
(***************************************************************************)
EXTENDS Integers, Sequences, FiniteSets, TLC

VARIABLES
    images,      \* tile_images: the sizes of the source images, [w, h]
    imgClosed,   \* tile_images: per source image, whether it was closed
    tile,        \* tile_images: <<cols, rows>>
    tparams,     \* tile_images: the params dict of the call
    tresult,     \* tile_images: what the call did (raised / canvas / pastes)
    tpc,         \* tile_images: "idle" before the call, "done" after
    sbVideo,     \* StoryBoard.video: what the storyboard reads of the Video
    sbLayout,    \* the layout options the caller passes to every gen_storyboard
    sbFrames,    \* StoryBoard.frames
    sbRet,       \* StoryBoard: the last method call and how it ended
    sbClean,     \* StoryBoard: every method call so far returned normally
    vFile,       \* the file at the video's path and how ffprobe behaves on it
    vpc,         \* Video: "new", "ready", "hashing" (in _get_sha1sum) or "failed"
    video,       \* the attributes of the Video object
    vExc,        \* the exception Video.__init__ raised, if any
    vSpawns,     \* the number of ffprobe processes spawned by Video.__init__
    fileContent, \* the current content of the file
    fileOpens,   \* how many times the file was opened for hashing
    vRet,        \* Video: the last method call and what it returned
    vScan,       \* what _get_scan_type read and parsed of the frame probe
    vHash,       \* _get_sha1sum in progress: the call and the chunks read so far
    fCall,       \* extract_frame: the arguments and how ffmpeg behaves on them
    fpc,         \* extract_frame: "idle" before the call, "done" after
    fResult,     \* extract_frame: what the call returned or raised
    rConf,       \* a run: the entry point, the tools installed, the files given
    rpc,         \* a run: "start", "running", "exited"
    rNext,       \* a run: the number of the next file to process
    rLog,        \* a run: the processes spawned and outputs written, in order
    rRet,        \* a run: the value returned and the exception that ended it
    uCall,       \* util.py: the function called and its arguments
    upc,         \* util.py: "idle" before the call, "done" after
    uRet,        \* util.py: what the call returned or raised
    pb,          \* ProgressBar: the attributes of the object
    pbNow,       \* ProgressBar: what time.time() returns
    pbRet,       \* ProgressBar: the last method call and how it ended
    scanPc,      \* _get_scan_type: the statement the parent is at
    scanObjs,    \* _get_scan_type: len(objs), the frame objects parsed
    ffprobe,     \* the ffprobe child: what it does next and what it wrote
    pipeOut,     \* the lines in the pipe of the child's standard output
    pipeErr      \* the chunks in the pipe of the child's standard error

tileVars == <<images, imgClosed, tile, tparams, tresult, tpc>>
sbVars == <<sbVideo, sbLayout, sbFrames, sbRet, sbClean>>
videoVars == <<vFile, vpc, video, vExc, vSpawns, fileContent, fileOpens, vRet, vScan, vHash>>

frameVars == <<fCall, fpc, fResult>>
runVars == <<rConf, rpc, rNext, rLog, rRet>>

utilVars == <<uCall, upc, uRet, pb, pbNow, pbRet>>

procVars == <<scanPc, scanObjs, ffprobe, pipeOut, pipeErr>>

vars == <<tileVars, sbVars, videoVars, frameVars, runVars, utilVars, procVars>>

(***************************************************************************)
(* Bounds and input domains                                                *)
(***************************************************************************)
MaxImages == 4

\* Pixel sizes the source images and the forced tile size are drawn from.
ImageSizes == {<<1, 1>>, <<2, 1>>, <<1, 2>>, <<2, 2>>}

\* (cols, rows) grids.
Tiles == {<<1, 1>>, <<2, 1>>, <<1, 2>>, <<2, 2>>, <<3, 1>>, <<1, 3>>}

\* (hor, ver) pairs for tile_spacing and for margins.
SpacingChoices == {<<0, 0>>, <<1, 2>>}
MarginChoices == {<<0, 0>>, <<3, 5>>}

Image(sz) == [w |-> sz[1], h |-> sz[2]]

RECURSIVE SeqsUpTo(_, _)
SeqsUpTo(S, n) ==
    IF n = 0 THEN {<<>>}
    ELSE LET shorter == SeqsUpTo(S, n - 1)
         IN  shorter \cup {Append(s, x) : s \in {t \in shorter : Len(t) = n - 1}, x \in S}

ImageLists == SeqsUpTo({Image(sz) : sz \in ImageSizes}, MaxImages)

\* tile_size is <<>> when the key is absent or None, <<width, height>> otherwise.
TileParams ==
    [tile_size : {<<>>} \cup ImageSizes,
     tile_spacing : SpacingChoices,
     margins : MarginChoices,
     close_separate_images : BOOLEAN]

(***************************************************************************)
(* tile_images (storyboard.py)                                             *)
(***************************************************************************)
\* images[index] with the 0-based index of the code.
At(imgs, index) == imgs[index + 1]

\* SumRefWidths with the last column left out of the total.
RECURSIVE SumRefWidths_SkipLast(_, _, _)
SumRefWidths_SkipLast(imgs, cols, col) ==
    IF col <= 1 THEN 0
    ELSE SumRefWidths_SkipLast(imgs, cols, col - 1) + At(imgs, 0 * cols + (col - 2)).w

\* for col in range(0, cols): canvas_width += ref_width, ref_index = 0*cols + col
RECURSIVE SumRefWidths(_, _, _)
SumRefWidths(imgs, cols, col) ==
    IF col = 0 THEN 0
    ELSE SumRefWidths(imgs, cols, col - 1) + At(imgs, 0 * cols + (col - 1)).w

\* for row in range(0, rows): canvas_height += ref_height, ref_index = row*cols + 0
RECURSIVE SumRefHeights(_, _, _)
SumRefHeights(imgs, cols, row) ==
    IF row = 0 THEN 0
    ELSE SumRefHeights(imgs, cols, row - 1) + At(imgs, (row - 1) * cols + 0).h

\* WidthMismatches with the inner loop stopping after row 1.
WidthMismatches_RowOneOnly(imgs, cols, rows) ==
    {cr \in (0 .. cols - 1) \X (1 .. (IF rows > 1 THEN 1 ELSE 0)) :
        At(imgs, cr[2] * cols + cr[1]).w # At(imgs, 0 * cols + cr[1]).w}

\* The (col, row) pairs at which the column width check raises.
WidthMismatches(imgs, cols, rows) ==
    {cr \in (0 .. cols - 1) \X (1 .. rows - 1) :
        At(imgs, cr[2] * cols + cr[1]).w # At(imgs, 0 * cols + cr[1]).w}

\* The (row, col) pairs at which the row height check raises.
HeightMismatches(imgs, cols, rows) ==
    {rc \in (0 .. rows - 1) \X (1 .. cols - 1) :
        At(imgs, rc[1] * cols + rc[2]).h # At(imgs, rc[1] * cols + 0).h}

\* x += image.size[0] + hor_spacing, over the columns before col of this row;
\* image is the source image, also when it is pasted resized.
RECURSIVE PasteX(_, _, _, _, _, _)
PasteX(imgs, cols, row, col, hor_margin, hor_spacing) ==
    IF col = 0 THEN hor_margin
    ELSE PasteX(imgs, cols, row, col - 1, hor_margin, hor_spacing)
         + At(imgs, row * cols + (col - 1)).w + hor_spacing

\* y += images[row * cols + 0].size[1] + ver_spacing, over the rows before row.
RECURSIVE PasteY(_, _, _, _, _)
PasteY(imgs, cols, row, ver_margin, ver_spacing) ==
    IF row = 0 THEN ver_margin
    ELSE PasteY(imgs, cols, row - 1, ver_margin, ver_spacing)
         + At(imgs, (row - 1) * cols + 0).h + ver_spacing

NoCanvas == <<0, 0>>

Raised(kind) ==
    [raised |-> TRUE, error |-> kind, canvas |-> NoCanvas, pastes |-> <<>>,
     closed |-> FALSE]

\* Pastes taking the image of row, col from the list read column by column.
Pastes_ColumnMajor(imgs, cols, rows, p, resize) ==
    [k \in 1 .. cols * rows |->
        LET row == (k - 1) \div cols
            col == (k - 1) % cols
            image == At(imgs, col * rows + row)
        IN  [index |-> col * rows + row,
             x |-> PasteX(imgs, cols, row, col, p.margins[1], p.tile_spacing[1]),
             y |-> PasteY(imgs, cols, row, p.margins[2], p.tile_spacing[2]),
             w |-> IF resize THEN p.tile_size[1] ELSE image.w,
             h |-> IF resize THEN p.tile_size[2] ELSE image.h]]

\* The pastes of the assembling loop, in paste order (row by row): the index of
\* the source image, the upper left corner and the size of what is pasted.
Pastes(imgs, cols, rows, p, resize) ==
    [k \in 1 .. cols * rows |->
        LET row == (k - 1) \div cols
            col == (k - 1) % cols
            image == At(imgs, row * cols + col)
        IN  [index |-> row * cols + col,
             x |-> PasteX(imgs, cols, row, col, p.margins[1], p.tile_spacing[1]),
             y |-> PasteY(imgs, cols, row, p.margins[2], p.tile_spacing[2]),
             w |-> IF resize THEN p.tile_size[1] ELSE image.w,
             h |-> IF resize THEN p.tile_size[2] ELSE image.h]]

tile_images(imgs, tl, p) ==
    LET cols == tl[1]
        rows == tl[2]
        hor_spacing == p.tile_spacing[1]
        ver_spacing == p.tile_spacing[2]
        hor_margin == p.margins[1]
        ver_margin == p.margins[2]
    IN  IF Len(imgs) # cols * rows THEN Raised("count")
        ELSE IF p.tile_size # <<>> THEN
            [raised |-> FALSE, error |-> "none",
             canvas |-> <<p.tile_size[1] * cols + hor_spacing * (cols - 1) + hor_margin * 2,
                          p.tile_size[2] * rows + ver_spacing * (rows - 1) + ver_margin * 2>>,
             pastes |-> Pastes(imgs, cols, rows, p, TRUE),
             closed |-> p.close_separate_images]
        ELSE IF WidthMismatches(imgs, cols, rows) # {} THEN Raised("width")
        ELSE IF HeightMismatches(imgs, cols, rows) # {} THEN Raised("height")
        ELSE
            [raised |-> FALSE, error |-> "none",
             canvas |-> <<hor_spacing * (cols - 1) + hor_margin * 2
                              + SumRefWidths(imgs, cols, cols),
                          ver_spacing * (rows - 1) + ver_margin * 2
                              + SumRefHeights(imgs, cols, rows)>>,
             pastes |-> Pastes(imgs, cols, rows, p, FALSE),
             closed |-> p.close_separate_images]

NoTileResult ==
    [raised |-> FALSE, error |-> "none", canvas |-> NoCanvas, pastes |-> <<>>,
     closed |-> FALSE]

DefaultTileParams ==
    [tile_size |-> <<>>, tile_spacing |-> <<0, 0>>, margins |-> <<0, 0>>,
     close_separate_images |-> FALSE]

TileIdle ==
    /\ images = <<>>
    /\ imgClosed = <<>>
    /\ tile = <<1, 1>>
    /\ tparams = DefaultTileParams
    /\ tresult = NoTileResult
    /\ tpc = "idle"

SBIdle ==
    /\ sbVideo = [dar |-> <<1, 1>>, nlines |-> 1]
    /\ sbLayout = [thumbnail_width |-> 1, tile_spacing |-> <<0, 0>>, margins |-> <<0, 0>>]
    /\ sbFrames = <<>>
    /\ sbRet = [op |-> "none"]
    /\ sbClean = TRUE

\* None, for the attributes that hold a tuple, a number or a text.
None == <<>>

NoException == [type |-> "none", stderr |-> None]
NoScan == [ran |-> FALSE, parsed |-> 0, read |-> 0, terminated |-> FALSE, drained |-> 0]
NoHash == [op |-> "none", include_sha1sum |-> FALSE, chunks |-> <<>>]

VideoIdle ==
    /\ vFile = [exists |-> FALSE]
    /\ vpc = "new"
    /\ video = [sha1sum |-> None]
    /\ vExc = NoException
    /\ vSpawns = 0
    /\ fileContent = 1
    /\ fileOpens = 0
    /\ vRet = [op |-> "none"]
    /\ vScan = NoScan
    /\ vHash = NoHash

FrameIdle ==
    /\ fCall = [exists |-> FALSE]
    /\ fpc = "idle"
    /\ fResult = [kind |-> "none"]

NoCall == [op |-> "none", arg |-> 0, exc |-> "", finished |-> FALSE, n |-> 0]

PBIdle ==
    /\ pb = [totalsize |-> 0]
    /\ pbNow = 0
    /\ pbRet = NoCall

UtilIdle ==
    /\ uCall = [fn |-> "none"]
    /\ upc = "idle"
    /\ uRet = [kind |-> "none"]
    /\ PBIdle

ProcIdle ==
    /\ scanPc = "idle"
    /\ scanObjs = 0
    /\ ffprobe = [state |-> "none"]
    /\ pipeOut = <<>>
    /\ pipeErr = 0

RunIdle ==
    /\ rConf = [entry |-> "none"]
    /\ rpc = "start"
    /\ rNext = 1
    /\ rLog = <<>>
    /\ rRet = [exc |-> "", msg |-> <<>>, value |-> 0]

InitTile ==
    /\ UtilIdle
    /\ ProcIdle
    /\ SBIdle
    /\ VideoIdle
    /\ FrameIdle
    /\ RunIdle
    /\ images \in ImageLists
    /\ imgClosed = [i \in 1 .. Len(images) |-> FALSE]
    /\ tile \in Tiles
    /\ tparams = DefaultTileParams
    /\ tresult = NoTileResult
    /\ tpc = "idle"

\* One call tile_images(images, tile, params).
TileImagesCall ==
    /\ tpc = "idle"
    /\ \E p \in TileParams :
        LET res == tile_images(images, tile, p)
        IN  /\ tparams' = p
            /\ tresult' = res
            /\ imgClosed' = [i \in 1 .. Len(images) |-> res.closed]
    /\ tpc' = "done"
    /\ UNCHANGED <<images, tile>>
    /\ UNCHANGED <<sbVars, videoVars, frameVars, runVars, utilVars, procVars>>

NextTile == TileImagesCall

SpecTile == InitTile /\ [][NextTile]_vars

(***************************************************************************)
(* Properties of tile_images                                               *)
(***************************************************************************)
Cols == tile[1]
Rows == tile[2]
TileDone == tpc = "done"
Strict == tparams.tile_size = <<>>

\* Grid position of the image at 1-based list position i (the code's indexing).
ColOf(i) == (i - 1) % Cols
RowOf(i) == (i - 1) \div Cols

\* Some image disagrees with the row-0 image of its column in width, or with
\* the column-0 image of its row in height.
Inconsistent ==
    \E i \in 1 .. Len(images) :
        \/ images[i].w # images[ColOf(i) + 1].w
        \/ images[i].h # images[RowOf(i) * Cols + 1].h

\* C4: without tile_size, tile_images raises ValueError exactly when the number
\* of images is not cols*rows, or an image's width differs from that of the
\* row-0 image of its column, or its height from that of the column-0 image of
\* its row; otherwise it returns a canvas; when it raises no image is closed.
C4_RaisesExactlyOnMismatch ==
    (TileDone /\ Strict) =>
        /\ tresult.raised <=>
              (IF Len(images) # Cols * Rows THEN TRUE ELSE Inconsistent)
        /\ ~tresult.raised => tresult.canvas # NoCanvas /\ Len(tresult.pastes) = Cols * Rows
        /\ tresult.raised => \A i \in 1 .. Len(images) : ~imgClosed[i]

\* C4 witness: a full 1x3 grid whose last image alone is too wide was rejected.
C4_Witness ==
    /\ TileDone /\ Strict /\ tile = <<1, 3>> /\ Len(images) = 3
    /\ images[1].w = images[2].w /\ images[3].w # images[1].w
    /\ tresult.raised /\ tresult.error = "width"
    /\ tparams.close_separate_images

\* Width of column c and height of row r of a consistent grid, read off the
\* last row and the last column.
ColWidth(c) == images[(Rows - 1) * Cols + c + 1].w
RowHeight(r) == images[r * Cols + (Cols - 1) + 1].h

RECURSIVE SumColWidths(_)
SumColWidths(n) == IF n = 0 THEN 0 ELSE SumColWidths(n - 1) + ColWidth(n - 1)
RECURSIVE SumRowHeights(_)
SumRowHeights(n) == IF n = 0 THEN 0 ELSE SumRowHeights(n - 1) + RowHeight(n - 1)

\* C5: the returned canvas is (sum of column widths, or cols*tileWidth)
\* + (cols-1)*hor spacing + 2*hor margin wide, and (sum of row heights, or
\* rows*tileHeight) + (rows-1)*ver spacing + 2*ver margin high.
C5_CanvasSize ==
    (TileDone /\ ~tresult.raised) =>
        tresult.canvas =
            << (IF Strict THEN SumColWidths(Cols) ELSE Cols * tparams.tile_size[1])
                   + (Cols - 1) * tparams.tile_spacing[1] + 2 * tparams.margins[1],
               (IF Strict THEN SumRowHeights(Rows) ELSE Rows * tparams.tile_size[2])
                   + (Rows - 1) * tparams.tile_spacing[2] + 2 * tparams.margins[2] >>

\* C5 witness: a 2x2 grid with columns of different widths, spacing and margins.
C5_Witness ==
    /\ TileDone /\ Strict /\ ~tresult.raised /\ tile = <<2, 2>>
    /\ images[1].w # images[2].w
    /\ tparams.tile_spacing = <<1, 2>> /\ tparams.margins = <<3, 5>>

Overlap(a, b) ==
    /\ a.x < b.x + b.w /\ b.x < a.x + a.w
    /\ a.y < b.y + b.h /\ b.y < a.y + a.h

InsideCanvas(a) ==
    /\ 0 <= a.x /\ a.x + a.w <= tresult.canvas[1]
    /\ 0 <= a.y /\ a.y + a.h <= tresult.canvas[2]

\* C6: with tile_size given, every image is pasted at the tile size, the tile
\* of row r, column c at x = hor_margin + c*(tileWidth + hor_spacing),
\* y = ver_margin + r*(tileHeight + ver_spacing); no two tiles overlap and
\* every tile lies inside the canvas, whatever the sizes of the source images.
C6_ForcedPlacement ==
    (TileDone /\ ~Strict /\ ~tresult.raised) =>
        /\ \A k \in 1 .. Len(tresult.pastes) :
              LET t == tresult.pastes[k]
                  c == t.index % Cols
                  r == t.index \div Cols
              IN  /\ t.w = tparams.tile_size[1] /\ t.h = tparams.tile_size[2]
                  /\ t.x = tparams.margins[1]
                            + c * (tparams.tile_size[1] + tparams.tile_spacing[1])
                  /\ t.y = tparams.margins[2]
                            + r * (tparams.tile_size[2] + tparams.tile_spacing[2])
                  /\ InsideCanvas(t)
        /\ \A j, k \in 1 .. Len(tresult.pastes) :
              j # k => ~Overlap(tresult.pastes[j], tresult.pastes[k])


(***************************************************************************)
(* StoryBoard (storyboard.py)                                              *)
(*                                                                         *)
(* The video is a valid one: its duration and display aspect ratio are     *)
(* available.  A frame is its timestamp as a fraction num/den of the       *)
(* duration.  Extraction of a frame by ffmpeg may fail (failAt).           *)
(***************************************************************************)
MaxFrameList == 4
DEFAULT_FONT_SIZE == 16

SBTiles == {<<1, 1>>, <<2, 1>>, <<1, 2>>, <<2, 2>>}
FrameCounts == {1, 2, 3}
ThumbnailWidths == {8, 16}
\* The display aspect ratio of the video and the number of lines of its
\* metadata report.
SBVideos == {[dar |-> <<16, 9>>, nlines |-> 6], [dar |-> <<4, 3>>, nlines |-> 10]}

\* int(round(a / b)) for a >= 0, b > 0 (ties to the even integer).
RoundDiv(a, b) ==
    LET q == a \div b
        r == a % b
    IN  IF 2 * r < b THEN q
        ELSE IF 2 * r > b THEN q + 1
        ELSE IF q % 2 = 0 THEN q ELSE q + 1

\* line_height = int(round(font.size * spacing)), default font, spacing 1.2
LineHeight == RoundDiv(DEFAULT_FONT_SIZE * 12, 10)

\* draw_text_block(..., dry_run): the height of a block of nlines lines.
TextBlockHeight(nlines) == nlines * LineHeight

\* timestamps = [interval * (i + 1/2) for i in range(0, count)]
Timestamp(i, count) == [num |-> 2 * i + 1, den |-> 2 * count]

\* What extract_frame raises when it fails: OSError, or UnicodeDecodeError
\* when the standard error of ffmpeg is not UTF-8 (frame.py:145).
FrameExceptions == {"OSError", "UnicodeDecodeError"}

\* gen_frames(count): the new frames list and the exception of extract_frame
\* that it re-raised, if any.  failAt = 0: every extraction succeeds;
\* failAt = k: the k-th one raises failKind.
gen_frames(frames, count, failAt, failKind) ==
    IF Len(frames) = count THEN [frames |-> frames, raised |-> FALSE, error |-> "none"]
    ELSE LET extracted == IF failAt = 0 THEN count ELSE failAt - 1
         IN  [frames |-> frames \o [i \in 1 .. extracted |-> Timestamp(i - 1, count)],
              raised |-> failAt # 0,
              error |-> IF failAt # 0 THEN failKind ELSE "none"]

\* create_thumbnail: size = (width, int(round(width / aspect_ratio)))
create_thumbnail(width, dar) == [w |-> width, h |-> RoundDiv(width * dar[2], dar[1])]

SBLayouts ==
    [thumbnail_width : ThumbnailWidths,
     tile_spacing : SpacingChoices,
     margins : MarginChoices]

SBCallParams ==
    [tile : SBTiles,
     include_metadata_sheet : BOOLEAN,
     include_promotional_banner : BOOLEAN,
     draw_timestamp : BOOLEAN]

SBRaise(p, failAt, kind) ==
    [op |-> "gen_storyboard", params |-> p, failAt |-> failAt,
     raised |-> TRUE, error |-> kind, size |-> NoCanvas]

\* _gen_bare_storyboard after gen_frames returned: thumbnails of all frames,
\* tiled without margins; the source thumbnails are closed.
gen_bare_storyboard(frames, vid, p) ==
    IF ~p.draw_timestamp THEN Raised("UnboundLocalError")
    ELSE tile_images([k \in 1 .. Len(frames) |->
                         create_thumbnail(p.thumbnail_width, vid.dar)],
                     p.tile,
                     [tile_size |-> <<>>, tile_spacing |-> p.tile_spacing,
                      margins |-> <<0, 0>>, close_separate_images |-> TRUE])

\* The sections of the full storyboard, top to bottom.
Sections(bare, vid, p) ==
    LET total_width == bare.canvas[1]
        sheet == [w |-> total_width, h |-> TextBlockHeight(vid.nlines)]
        banner == [w |-> total_width, h |-> TextBlockHeight(1)]
    IN  (IF p.include_metadata_sheet THEN <<sheet>> ELSE <<>>)
        \o <<[w |-> bare.canvas[1], h |-> bare.canvas[2]]>>
        \o (IF p.include_promotional_banner THEN <<banner>> ELSE <<>>)

\* gen_storyboard(params): what it returns or raises, given the frames list
\* gen_frames left.
gen_storyboard(gf, vid, p, failAt) ==
    IF gf.raised THEN SBRaise(p, failAt, gf.error)
    ELSE LET bare == gen_bare_storyboard(gf.frames, vid, p)
         IN  IF bare.raised THEN
                 SBRaise(p, failAt, IF bare.error = "UnboundLocalError"
                                    THEN bare.error ELSE "ValueError")
             ELSE LET sections == Sections(bare, vid, p)
                      section_spacing == p.tile_spacing[2]
                      full == tile_images(sections, <<1, Len(sections)>>,
                                  [tile_size |-> <<>>,
                                   tile_spacing |-> <<0, section_spacing>>,
                                   margins |-> p.margins,
                                   close_separate_images |-> TRUE])
                  IN  IF full.raised THEN SBRaise(p, failAt, "ValueError")
                      ELSE [op |-> "gen_storyboard", params |-> p, failAt |-> failAt,
                            raised |-> FALSE, error |-> "none", size |-> full.canvas]

InitSB ==
    /\ UtilIdle
    /\ TileIdle
    /\ ProcIdle
    /\ VideoIdle
    /\ FrameIdle
    /\ RunIdle
    /\ sbVideo \in SBVideos
    /\ sbLayout \in SBLayouts
    /\ sbFrames = <<>>
    /\ sbRet = [op |-> "none"]
    /\ sbClean = TRUE

\* The frames list stays within MaxFrameList.
FitsFrameList(count) == Len(sbFrames) = count \/ Len(sbFrames) + count <= MaxFrameList

\* sb.gen_frames(count)
GenFrames ==
    \E count \in FrameCounts, failAt \in 0 .. MaxFrameList, failKind \in FrameExceptions :
        /\ failAt <= count
        /\ FitsFrameList(count)
        /\ Len(sbFrames) = count => failAt = 0
        /\ failAt = 0 => failKind = "OSError"
        /\ LET gf == gen_frames(sbFrames, count, failAt, failKind)
           IN  /\ sbFrames' = gf.frames
               /\ sbRet' = [op |-> "gen_frames", count |-> count, failAt |-> failAt,
                            raised |-> gf.raised, error |-> gf.error]
               /\ sbClean' = (sbClean /\ ~gf.raised)
        /\ UNCHANGED <<sbVideo, sbLayout, tileVars, videoVars, frameVars, runVars, utilVars, procVars>>

\* sb.gen_storyboard(params)
GenStoryboard ==
    \E cp \in SBCallParams, failAt \in 0 .. MaxFrameList, failKind \in FrameExceptions :
        LET p == [tile |-> cp.tile,
                  thumbnail_width |-> sbLayout.thumbnail_width,
                  tile_spacing |-> sbLayout.tile_spacing,
                  margins |-> sbLayout.margins,
                  include_metadata_sheet |-> cp.include_metadata_sheet,
                  include_promotional_banner |-> cp.include_promotional_banner,
                  draw_timestamp |-> cp.draw_timestamp]
            count == p.tile[1] * p.tile[2]
        IN  /\ failAt <= count
            /\ FitsFrameList(count)
            /\ Len(sbFrames) = count => failAt = 0
            /\ failAt = 0 => failKind = "OSError"
            /\ LET gf == gen_frames(sbFrames, count, failAt, failKind)
               IN  /\ sbFrames' = gf.frames
                   /\ sbRet' = gen_storyboard(gf, sbVideo, p, failAt)
                   /\ sbClean' = (sbClean /\ ~gen_storyboard(gf, sbVideo, p, failAt).raised)
            /\ UNCHANGED <<sbVideo, sbLayout, tileVars, videoVars, frameVars, runVars, utilVars, procVars>>

NextSB == GenFrames \/ GenStoryboard

SpecSB == InitSB /\ [][NextSB]_vars

(***************************************************************************)
(* Properties of StoryBoard                                                *)
(***************************************************************************)
\* C3: after gen_frames(count) returns normally the frames attribute holds
\* exactly count frames, whatever calls preceded it.
C3_FramesMatchCount ==
    (sbRet.op = "gen_frames" /\ ~sbRet.raised) => Len(sbFrames) = sbRet.count

\* A gen_storyboard call on a valid video with the documented defaults for
\* the options the layout does not name: every frame extraction succeeds and
\* draw_timestamp is left at its default, True.
ValidStoryboardCall ==
    /\ sbRet.op = "gen_storyboard"
    /\ sbRet.failAt = 0
    /\ sbRet.params.draw_timestamp

\* C7: for a valid video and every tile, thumbnail width, spacing, margins and
\* choice of sections, gen_storyboard does not raise and returns an image
\* cols*thumbnail_width + (cols-1)*hor spacing + 2*hor margin wide.
C7_StoryboardWidth ==
    ValidStoryboardCall =>
        /\ ~sbRet.raised
        /\ sbRet.size[1] =
               sbRet.params.tile[1] * sbRet.params.thumbnail_width
               + (sbRet.params.tile[1] - 1) * sbRet.params.tile_spacing[1]
               + 2 * sbRet.params.margins[1]

(***************************************************************************)
(* Ratio strings (util.py).  A text is a sequence of characters.           *)
(***************************************************************************)
Digits == <<"0", "1", "2", "3", "4", "5", "6", "7", "8", "9">>
IsDigit(c) == \E d \in 1 .. 10 : Digits[d] = c
DigitVal(c) == (CHOOSE d \in 1 .. 10 : Digits[d] = c) - 1

\* int(text) of a numeral
RECURSIVE NumeralValue(_)
NumeralValue(cs) ==
    IF cs = <<>> THEN 0
    ELSE 10 * NumeralValue(SubSeq(cs, 1, Len(cs) - 1)) + DigitVal(cs[Len(cs)])

\* [1-9][0-9]*
IsPositiveNumeral(cs) ==
    /\ Len(cs) >= 1
    /\ \A k \in 1 .. Len(cs) : IsDigit(cs[k])
    /\ cs[1] # "0"

\* '$' matches at the end of the text and also just before a newline that
\* ends the text: the part of the text the groups can cover.
BeforeFinalNewline(cs) ==
    IF Len(cs) >= 1 /\ cs[Len(cs)] = "\n" THEN SubSeq(cs, 1, Len(cs) - 1) ELSE cs

\* ^([1-9][0-9]*)<sep>([1-9][0-9]*)$ : the positions of sep that match
RatioMatches(cs, sep) ==
    LET body == BeforeFinalNewline(cs)
    IN  {k \in 1 .. Len(body) :
            /\ body[k] = sep
            /\ IsPositiveNumeral(SubSeq(body, 1, k - 1))
            /\ IsPositiveNumeral(SubSeq(body, k + 1, Len(body)))}

\* A gcd that reduces nothing.
GCD_Unreduced(a, b) == 1

RECURSIVE GCD(_, _)
GCD(a, b) == IF b = 0 THEN a ELSE GCD(b, a % b)

\* The float numerator / denominator, kept as a fraction in lowest terms.
Ratio(n, d) == <<n \div GCD(n, d), d \div GCD(n, d)>>

RatioAt(cs, k) ==
    LET body == BeforeFinalNewline(cs)
    IN  Ratio(NumeralValue(SubSeq(body, 1, k - 1)), NumeralValue(SubSeq(body, k + 1, Len(body))))

evaluate_ratio(cs) ==
    IF RatioMatches(cs, ":") # {} THEN RatioAt(cs, CHOOSE k \in RatioMatches(cs, ":") : TRUE)
    ELSE IF RatioMatches(cs, "/") # {} THEN RatioAt(cs, CHOOSE k \in RatioMatches(cs, "/") : TRUE)
    ELSE None

\* "%d" % n for n >= 0
RECURSIVE ToChars(_)
ToChars(n) ==
    IF n < 10 THEN <<Digits[n + 1]>>
    ELSE ToChars(n \div 10) \o <<Digits[(n % 10) + 1]>>

(***************************************************************************)
(* Sizes and durations as texts (util.py)                                  *)
(***************************************************************************)
RECURSIVE Pow1024(_)
Pow1024(k) == IF k = 0 THEN 1 ELSE 1024 * Pow1024(k - 1)

RECURSIVE Pow10(_)
Pow10(k) == IF k = 0 THEN 1 ELSE 10 * Pow10(k - 1)

\* A size in bytes is written m * 1024^e, so that sizes beyond 2^31 can be
\* given: Size(9765625, 1) is 10000000000.
Size(m, e) == [m |-> m, e |-> e]

SizeMantissas ==
    {0, 1, 9, 10, 100, 1000, 1023, 1024, 1025, 10000, 10239, 10240, 100000, 102399,
     1047553, 9765625}

SizeExponents == 0 .. 8

Sizes ==
    {sz \in [m : SizeMantissas, e : SizeExponents] :
        /\ sz.m = 0 => sz.e = 0
        /\ sz.e = 8 => sz.m < 200000}

\* m * 1024^x < 1024, for m < 1024^3 and any integer x
Below1024(m, x) ==
    IF m = 0 THEN TRUE
    ELSE IF x >= 1 THEN FALSE
    ELSE IF x <= -2 THEN TRUE
    ELSE m < Pow1024(1 - x)

\* m * 1024^x as a fraction
Numer(m, x) == IF x >= 0 THEN m * Pow1024(x) ELSE m
Denom(x) == IF x >= 0 THEN 1 ELSE Pow1024(-x)

\* A rounding that drops the digits beyond ndigits.
round_up_Floor(num, den, ndigits) == (num * Pow10(ndigits)) \div den

\* round_up(number, ndigits) of number = num / den, in units of 10^-ndigits:
\* math.ceil(number * multiplier)
round_up(num, den, ndigits) == (num * Pow10(ndigits) + den - 1) \div den

\* cs with zeros in front up to the width w
PadZeros(cs, w) == [k \in 1 .. (w - Len(cs)) |-> "0"] \o cs

\* "%.<ndigits>f" % (n / 10^ndigits)
FormatFixed(n, ndigits) ==
    IF ndigits = 0 THEN ToChars(n)
    ELSE ToChars(n \div Pow10(ndigits)) \o <<".">>
             \o PadZeros(ToChars(n % Pow10(ndigits)), ndigits)

\* The units of the loop of humansize.
Units == << <<"K", "i">>, <<"M", "i">>, <<"G", "i">>, <<"T", "i">>,
            <<"P", "i">>, <<"E", "i">>, <<"Z", "i">> >>

\* The for loop of humansize, entered at unit k with size = m * 1024^x.
RECURSIVE ScaleSize(_, _, _)
ScaleSize(m, x0, k) ==
    LET x == x0 - 1
        num == Numer(m, x)
        den == Denom(x)
    IN  IF Below1024(m, x)
        THEN IF num < 10 * den
             THEN FormatFixed(round_up(num, den, 2), 2) \o Units[k] \o <<"B">>
             ELSE IF num < 100 * den
             THEN FormatFixed(round_up(num, den, 1), 1) \o Units[k] \o <<"B">>
             ELSE FormatFixed(round_up(num, den, 0), 0) \o Units[k] \o <<"B">>
        ELSE IF k < Len(Units) THEN ScaleSize(m, x, k + 1)
        ELSE FormatFixed(round_up(num, den, 1), 1) \o Units[k] \o <<"B">>

humansize(size) ==
    IF Below1024(size.m, size.e)
    THEN ToChars(Numer(size.m, size.e)) \o <<"B">>
    ELSE ScaleSize(size.m, size.e, 1)

HumanSizeCalls == [fn : {"humansize"}, size : Sizes]

\* Durations are given in milliseconds: 1006 is the float 1.006.
Millis ==
    {-1000, -1, 0, 500, 1006, 1500, 9994, 58500, 59499, 59500, 59994, 59996, 59999, 60000,
     119500, 3599000, 3599999, 3600000, 10000000, 35999999, 36000000, 50000000, 86400000}

\* The largest ndigits of a call.
MaxDigits == 3

\* round() and the %f conversion round to the nearest value and a tie to
\* the even one: n / den as an integer.
RoundHalfEven(n, den) ==
    LET q == n \div den
        r == n % den
    IN  IF 2 * r < den THEN q
        ELSE IF 2 * r > den THEN q + 1
        ELSE IF q % 2 = 0 THEN q ELSE q + 1

\* ms / 1000 is a float that lies halfway between two texts of ndigits
\* decimals although it is not that half itself (1.005 with 2 decimals):
\* the text depends on the float's last bits, and such calls are left out.
InexactTie(ms, ndigits) == ndigits >= 1 /\ ((ms % 1000) * Pow10(ndigits)) % 1000 = 500

HumanTimeCalls ==
    {c \in [fn : {"humantime"}, ms : Millis, ndigits : 0 .. MaxDigits, one_hour_digit : BOOLEAN] :
        c.ms >= 0 => ~InexactTie(c.ms, c.ndigits)}

humantime(ms, ndigits, one_hour_digit) ==
    IF ms < 0 THEN [kind |-> "raised", type |-> "ValueError", value |-> <<>>]
    ELSE LET int == ms \div 1000
             hh == int \div 3600
             mm == (int \div 60) % 60
             ss == ms - (int \div 60) * 60 * 1000
             hh_str == IF one_hour_digit THEN ToChars(hh) ELSE PadZeros(ToChars(hh), 2)
             mm_str == PadZeros(ToChars(mm), 2)
             ss_str == IF ndigits = 0 THEN PadZeros(ToChars(RoundHalfEven(ss, 1000)), 2)
                       ELSE PadZeros(FormatFixed(RoundHalfEven(ss * Pow10(ndigits), 1000), ndigits),
                                     ndigits + 3)
         IN  [kind |-> "returned", type |-> "",
              value |-> hh_str \o <<":">> \o mm_str \o <<":">> \o ss_str]

(***************************************************************************)
(* Stream records of the metadata probe and their processing (metadata.py) *)
(***************************************************************************)
\* A key of a probe record: absent, or present with a text.
Absent == [present |-> FALSE, text |-> <<>>]
Str(cs) == [present |-> TRUE, text |-> cs]

VideoDict(w, h, dar, r, avg) ==
    [codec_type |-> Str(<<"video">>), width |-> w, height |-> h,
     display_aspect_ratio |-> dar, r_frame_rate |-> r, avg_frame_rate |-> avg]

OtherDict(codec_type) ==
    [codec_type |-> codec_type, width |-> 0, height |-> 0,
     display_aspect_ratio |-> Absent, r_frame_rate |-> Absent, avg_frame_rate |-> Absent]

\* The stream records a probe may report.
StreamPool ==
    { VideoDict(320, 180, Str(<<"1", "6", ":", "9">>), Str(<<"2", "5", "/", "1">>),
                Str(<<"2", "5", "/", "1">>)),
      VideoDict(640, 480, Str(<<"4", ":", "3">>), Str(<<"0", "/", "0">>),
                Str(<<"3", "0", "0", "0", "0", "/", "1", "0", "0", "1">>)),
      VideoDict(720, 576, Str(<<"0", ":", "1">>), Absent, Absent),
      VideoDict(320, 180, Str(<<"1", "6", ":", "9">>),
                Str(<<"2", "4", "9", "9", "9", "9", "9", "/", "1", "0", "0", "0", "0", "0">>),
                Str(<<"2", "5", "/", "1">>)),
      VideoDict(1920, 1080, Absent, Absent,
                Str(<<"2", "4", "0", "0", "0", "/", "1", "0", "0", "1">>)),
      OtherDict(Str(<<"audio">>)),
      OtherDict(Str(<<"subtitle">>)),
      OtherDict(Str(<<"data">>)),
      OtherDict(Str(<<"attachment">>)),
      OtherDict(Absent) }

\* The attributes of Video set while the streams are processed.
NoAggregate ==
    [dimension |-> None, dimension_text |-> None, dar |-> None, dar_text |-> None,
     frame_rate |-> None, frame_rate_text |-> None]

\* The float numerator / denominator is the double nearest to n/d.  With
\* num/den = n/d scaled by a power of two into [1, 2), its 53 bits are the
\* leading 1 and 52 more; r is the remainder after them and bit the last.
\* The bits of a double's mantissa after the leading one.
MantissaBits == 52

RECURSIVE MantissaRest(_, _, _, _)
MantissaRest(r, bit, den, steps) ==
    IF steps = 0 THEN [r |-> r, bit |-> bit]
    ELSE CHOOSE m \in {MantissaRest(q % den, q \div den, den, steps - 1) : q \in {2 * r}} : TRUE

RECURSIVE ScaledInto12(_, _)
ScaledInto12(num, den) ==
    IF num < den THEN ScaledInto12(2 * num, den)
    ELSE IF num >= 2 * den THEN ScaledInto12(num, 2 * den)
    ELSE [num |-> num, den |-> den]

\* The sign of float(n) / float(d) - n/d: -1 when the double is below the
\* ratio, 0 when it is the ratio, 1 when it is above (round to nearest, ties
\* to the even mantissa).
FloatError(n, d) ==
    LET x == ScaledInto12(n, d)
        m == MantissaRest(x.num - x.den, 1, x.den, MantissaBits)
    IN  IF m.r = 0 THEN 0
        ELSE IF 2 * m.r < x.den THEN -1
        ELSE IF 2 * m.r > x.den THEN 1
        ELSE IF m.bit = 0 THEN -1 ELSE 1

\* abs(fps - int(fps)) < 0.0001 for the float fps = n/d: decided by the
\* ratio, and by the float's error when the fraction is 0.0001 exactly.
NearInteger(n, d) ==
    \/ (n % d) * 10000 < d
    \/ (n % d) * 10000 = d /\ FloatError(n, d) < 0

\* '%.2f' % fps in hundredths: the float's value to the nearest hundredth;
\* when the ratio is halfway between two, the float's error decides, and
\* the even one is taken when the float is the ratio.
TwoDecimals(n, d) ==
    IF 2 * ((100 * n) % d) = d /\ FloatError(n, d) # 0
    THEN (100 * n) \div d + (IF FloatError(n, d) > 0 THEN 1 ELSE 0)
    ELSE RoundDiv(100 * n, d)

\* frame_rate_text: '%d fps' % int(fps) when abs(fps - int(fps)) < 0.0001,
\* else '%.2f fps' % fps (given in hundredths).
FrameRateText(fps) ==
    IF fps = None THEN None
    ELSE LET n == fps[1]
             d == fps[2]
         IN  IF NearInteger(n, d) THEN <<"%d fps", n \div d>>
             ELSE <<"%.2f fps", TwoDecimals(n, d)>>

\* _process_video_stream: the Stream object. Codec and bit rate are left out.
VideoStream(sdict) ==
    LET reported == IF sdict.display_aspect_ratio.present
                    THEN evaluate_ratio(sdict.display_aspect_ratio.text)
                    ELSE None
        gcd == GCD(sdict.width, sdict.height)
        reduced_width == sdict.width \div gcd
        reduced_height == sdict.height \div gcd
        frame_rate == IF sdict.r_frame_rate.present
                      THEN evaluate_ratio(sdict.r_frame_rate.text)
                      ELSE IF sdict.avg_frame_rate.present
                      THEN evaluate_ratio(sdict.avg_frame_rate.text)
                      ELSE None
        dimension_text == ToChars(sdict.width) \o <<"x">> \o ToChars(sdict.height)
        dar_text == IF reported # None THEN sdict.display_aspect_ratio.text
                    ELSE ToChars(reduced_width) \o <<":">> \o ToChars(reduced_height)
    IN  [type |-> <<"video">>,
         dimension |-> <<sdict.width, sdict.height>>,
         dimension_text |-> dimension_text,
         dar |-> IF reported # None THEN reported ELSE Ratio(reduced_width, reduced_height),
         dar_text |-> dar_text,
         frame_rate |-> frame_rate,
         frame_rate_text |-> FrameRateText(frame_rate),
         info_string |-> <<"Video", dimension_text, dar_text, FrameRateText(frame_rate)>>]

\* A Stream of another type: the video attributes stay None.
PlainStream(type, info) ==
    [type |-> type, dimension |-> None, dimension_text |-> None, dar |-> None,
     dar_text |-> None, frame_rate |-> None, frame_rate_text |-> None,
     info_string |-> <<info>>]

\* _process_stream that files every other codec_type under 'data'.
process_stream_DataForOthers(sdict) ==
    IF ~sdict.codec_type.present THEN PlainStream(<<"unknown">>, "Data")
    ELSE IF sdict.codec_type.text = <<"video">> THEN VideoStream(sdict)
    ELSE IF sdict.codec_type.text = <<"audio">> THEN PlainStream(<<"audio">>, "Audio")
    ELSE IF sdict.codec_type.text = <<"subtitle">> THEN PlainStream(<<"subtitle">>, "Subtitle")
    ELSE PlainStream(<<"data">>, "Data")

\* _process_stream without the index.
process_stream(sdict) ==
    IF ~sdict.codec_type.present THEN PlainStream(<<"unknown">>, "Data")
    ELSE IF sdict.codec_type.text = <<"video">> THEN VideoStream(sdict)
    ELSE IF sdict.codec_type.text = <<"audio">> THEN PlainStream(<<"audio">>, "Audio")
    ELSE IF sdict.codec_type.text = <<"subtitle">> THEN PlainStream(<<"subtitle">>, "Subtitle")
    ELSE PlainStream(sdict.codec_type.text, "Data")

\* Aggregate in which every video stream overwrites the attributes.
Aggregate_LastWins(agg, s) ==
    IF s.type # <<"video">> THEN agg
    ELSE [dimension |-> s.dimension, dimension_text |-> s.dimension_text,
          dar |-> s.dar, dar_text |-> s.dar_text,
          frame_rate |-> s.frame_rate, frame_rate_text |-> s.frame_rate_text]

\* The Video attributes after _process_video_stream made the Stream s:
\* each is set when it is still None.
Aggregate(agg, s) ==
    IF s.type # <<"video">> THEN agg
    ELSE [dimension |-> IF agg.dimension = None THEN s.dimension ELSE agg.dimension,
          dimension_text |-> IF agg.dimension = None THEN s.dimension_text
                             ELSE agg.dimension_text,
          dar |-> IF agg.dar = None THEN s.dar ELSE agg.dar,
          dar_text |-> IF agg.dar = None THEN s.dar_text ELSE agg.dar_text,
          frame_rate |-> IF agg.frame_rate = None THEN s.frame_rate ELSE agg.frame_rate,
          frame_rate_text |-> IF agg.frame_rate = None THEN s.frame_rate_text
                              ELSE agg.frame_rate_text]

\* _process_streams: the Stream objects in probe order (index = the prober's,
\* the position in the list) and the Video attributes they leave.
RECURSIVE process_streams(_, _)
process_streams(dicts, k) ==
    IF k = 0 THEN [streams |-> <<>>, agg |-> NoAggregate]
    ELSE LET before == process_streams(dicts, k - 1)
             s == process_stream(dicts[k])
         IN  [streams |-> Append(before.streams, [index |-> k - 1, stream |-> s]),
              agg |-> Aggregate(before.agg, s)]

(***************************************************************************)
(* The frame probe and _get_scan_type (metadata.py)                        *)
(*                                                                         *)
(* The standard output of ffprobe -show_frames -print_format json is a     *)
(* sequence of lines; a line is the opening brace of an object, one        *)
(* "key": value field, a closing brace (followed by a comma or not), the   *)
(* key and opening of a nested array or object, the closing bracket of an  *)
(* array, a JSON value on a line of its own, a blank line, or other text.  *)
(***************************************************************************)
ScanFrames == 40
ScanWindowStart == 20
AllInterlaced == 20
TelecineCount == 8
MaxExtraFrames == 2

LOpen == [kind |-> "open", key |-> "", val |-> 0, comma |-> FALSE]
LField(key, val) == [kind |-> "field", key |-> key, val |-> val, comma |-> FALSE]
LClose(comma) == [kind |-> "close", key |-> "", val |-> 0, comma |-> comma]
LOther(text) == [kind |-> "other", key |-> text, val |-> 0, comma |-> FALSE]
\* "key": [   and   "key": {   and   ]
LArray(key) == [kind |-> "array", key |-> key, val |-> 0, comma |-> FALSE]
LObject(key) == [kind |-> "object", key |-> key, val |-> 0, comma |-> FALSE]
LEndArray(comma) == [kind |-> "endarray", key |-> "", val |-> 0, comma |-> comma]
\* a value on one line: 0 (or true), null, "x", "interlaced_frame" or {}
ValueTypes == {"number", "null", "string", "key_string", "object"}
LValue(type, comma) == [kind |-> "value", key |-> type, val |-> 0, comma |-> comma]
\* a line of white space, which line.strip() empties
LBlank == [kind |-> "blank", key |-> "", val |-> 0, comma |-> FALSE]

\* The lines (standard output) or chunks (standard error) a pipe holds; a
\* write to a full pipe blocks until the other end reads.
PipeCapacity == 2

\* The JSON parser after a line, given it before the line: the containers
\* open at that point, innermost last ("o" an object, "a" an array), what
\* the last line lets follow ("more" after a value with a comma, "end" after
\* one without, "any" otherwise: the comma of a field line is not
\* modelled), and whether the text can still be a JSON value.  An object
\* holds fields and keyed arrays and objects; an array holds objects and
\* one-line values; text that is no part of JSON fails for good.
\* JsonPush is the parser with one more container open.
JsonPush(st, c) == [st EXCEPT !.stack = Append(st.stack, c), !.started = TRUE, !.need = "any"]

\* The parser with the innermost container closed by the line.
JsonPop(st, line) ==
    [st EXCEPT !.stack = SubSeq(st.stack, 1, Len(st.stack) - 1),
               !.need = IF line.comma THEN "more" ELSE "end"]

\* The parser after a one-line value.
JsonValue(st, line) ==
    [st EXCEPT !.started = TRUE, !.need = IF line.comma THEN "more" ELSE "end"]

JsonFail(st) == [st EXCEPT !.ok = FALSE]

\* The parser after a line.
JsonAfterLine(st, line) ==
    IF ~st.ok THEN st
    ELSE IF st.stack = <<>>
    THEN IF st.started THEN JsonFail(st)
         ELSE IF line.kind = "open" THEN JsonPush(st, "o")
         ELSE IF line.kind = "value" THEN JsonValue(st, line)
         ELSE JsonFail(st)
    ELSE IF line.kind \in {"close", "endarray"}
    THEN IF st.need # "more"
            /\ line.kind = (IF st.stack[Len(st.stack)] = "o" THEN "close" ELSE "endarray")
         THEN JsonPop(st, line)
         ELSE JsonFail(st)
    ELSE IF st.need = "end" THEN JsonFail(st)
    ELSE IF st.stack[Len(st.stack)] = "o"
    THEN IF line.kind = "field" THEN [st EXCEPT !.need = "any"]
         ELSE IF line.kind = "array" THEN JsonPush(st, "a")
         ELSE IF line.kind = "object" THEN JsonPush(st, "o")
         ELSE JsonFail(st)
    ELSE IF line.kind = "open" THEN JsonPush(st, "o")
    ELSE IF line.kind = "value" THEN JsonValue(st, line)
    ELSE JsonFail(st)

\* The parser after the first k lines of the accumulated text.
RECURSIVE JsonAfter(_, _)
JsonAfter(acc, k) ==
    IF k = 0 THEN [ok |-> TRUE, started |-> FALSE, stack |-> <<>>, need |-> "any"]
    ELSE CHOOSE after \in {JsonAfterLine(st, acc[k]) : st \in {JsonAfter(acc, k - 1)}} : TRUE

\* json.loads of the accumulated text (a trailing comma cut off) succeeds:
\* the lines are one whole JSON value, whatever is nested in it.
IsCompleteObject(acc) ==
    LET st == JsonAfter(acc, Len(acc))
    IN  st.ok /\ st.started /\ st.stack = <<>>

\* The lines of the accumulated text that give the key interlaced_frame of
\* the object itself, not of a nested one.
FlagLines(acc) ==
    {k \in 1 .. Len(acc) :
        /\ acc[k].kind \in {"field", "array", "object"}
        /\ acc[k].key = "interlaced_frame"
        /\ Len(JsonAfter(acc, k - 1).stack) = 1}

\* A dict with the key interlaced_frame as the line gives it.
DictWithFlag(line) ==
    [type |-> "dict", has |-> TRUE,
     holds |-> IF line.kind = "field" THEN "number"
               ELSE IF line.kind = "array" THEN "list" ELSE "dict",
     interlaced_frame |-> line.val]

\* A value without the key interlaced_frame.
ValueWithoutFlag(type) ==
    [type |-> type, has |-> FALSE, holds |-> "none", interlaced_frame |-> 0]

\* A string of which interlaced_frame is a part: 'interlaced_frame' in frame
\* holds, and frame['interlaced_frame'] is no number.
StringWithKey == [type |-> "string", has |-> TRUE, holds |-> "none", interlaced_frame |-> 0]

\* The value json.loads returns: its type and, for a dict, whether it has
\* the key interlaced_frame and what the key holds: of a key given twice
\* the last value is kept, be it a number, a list or a dict.
FrameObject(acc) ==
    IF acc[1].kind = "value"
    THEN IF acc[1].key = "key_string" THEN StringWithKey
         ELSE ValueWithoutFlag(IF acc[1].key = "object" THEN "dict" ELSE acc[1].key)
    ELSE IF FlagLines(acc) = {} THEN ValueWithoutFlag("dict")
    ELSE DictWithFlag(acc[CHOOSE k \in FlagLines(acc) : \A j \in FlagLines(acc) : j <= k])

\* No text added to the accumulated one makes it JSON: every later
\* json.loads(obj_str) raises ValueError.
NeverJson(acc) == ~JsonAfter(acc, Len(acc)).ok

\* for line in lines: obj_str += line.strip(), from line number pos on,
\* until json.loads(obj_str) succeeds: the number of the line that completes
\* the value, 0 when the lines run out first, as they do once obj_str can
\* never be JSON.  A blank line adds nothing; when obj_str is still empty
\* after it, obj_str[-1] raises IndexError.
RECURSIVE ReadObject(_, _, _)
RECURSIVE ObjectAfterLine(_, _, _)
ObjectAfterLine(lines, pos, obj_str) ==
    IF obj_str = <<>> THEN [end |-> pos, obj_str |-> obj_str, exc |-> "IndexError"]
    ELSE IF IsCompleteObject(obj_str) THEN [end |-> pos, obj_str |-> obj_str, exc |-> "none"]
    ELSE IF NeverJson(obj_str) THEN [end |-> 0, obj_str |-> obj_str, exc |-> "none"]
    ELSE ReadObject(lines, pos + 1, obj_str)

ReadObject(lines, pos, acc) ==
    IF pos > Len(lines) THEN [end |-> 0, obj_str |-> acc, exc |-> "none"]
    ELSE CHOOSE o \in {ObjectAfterLine(lines, pos, obj_str) :
                          obj_str \in {IF lines[pos].kind = "blank" THEN acc
                                       ELSE Append(acc, lines[pos])}} : TRUE

\* A loop over the lines that goes on to the last line.
RECURSIVE ReadFrames_ToTheEnd(_, _, _)
ReadFrames_ToTheEnd(lines, pos, objs) ==
    LET o == ReadObject(lines, pos, <<>>)
    IN  IF o.exc # "none"
        THEN [objs |-> objs, read |-> o.end, terminated |-> FALSE, exc |-> o.exc]
        ELSE IF o.end = 0
        THEN [objs |-> objs, read |-> Len(lines), terminated |-> FALSE, exc |-> "none"]
        ELSE ReadFrames_ToTheEnd(lines, o.end + 1, Append(objs, FrameObject(o.obj_str)))

\* The loop over the lines, value by value: each parsed value is appended
\* to objs and obj_str is emptied; at 40 values the child is terminated.
RECURSIVE ReadFrames(_, _, _)
ReadFrames(lines, pos, objs) ==
    LET o == ReadObject(lines, pos, <<>>)
    IN  IF o.exc # "none"
        THEN [objs |-> objs, read |-> o.end, terminated |-> FALSE, exc |-> o.exc]
        ELSE IF o.end = 0
        THEN [objs |-> objs, read |-> Len(lines), terminated |-> FALSE, exc |-> "none"]
        ELSE LET objs2 == Append(objs, FrameObject(o.obj_str))
             IN  IF Len(objs2) >= ScanFrames
                 THEN [objs |-> objs2, read |-> o.end, terminated |-> TRUE, exc |-> "none"]
                 ELSE ReadFrames(lines, o.end + 1, objs2)

\* for frame in objs[20:]: 'interlaced_frame' in frame raises TypeError for
\* a number or null, frame['interlaced_frame'] raises it for a string, and
\* num_interlaced += frame['interlaced_frame'] for a list or a dict.
WindowTypeError(objs) ==
    \E k \in ScanWindowStart + 1 .. Len(objs) :
        \/ objs[k].type \in {"number", "null"}
        \/ objs[k].has /\ objs[k].holds # "number"

\* num_interlaced counted over all of objs.
RECURSIVE NumInterlaced_WholeList(_, _)
NumInterlaced_WholeList(objs, k) ==
    IF k = 0 THEN 0
    ELSE NumInterlaced_WholeList(objs, k - 1)
         + (IF objs[k].has THEN objs[k].interlaced_frame ELSE 0)

\* num_interlaced over frames = objs[20:]
RECURSIVE NumInterlaced(_, _)
NumInterlaced(objs, k) ==
    IF k <= ScanWindowStart THEN 0
    ELSE NumInterlaced(objs, k - 1)
         + (IF objs[k].has THEN objs[k].interlaced_frame ELSE 0)

ScanTypeOf(num_interlaced) ==
    IF num_interlaced = 0 THEN "Progressive scan"
    ELSE IF num_interlaced = AllInterlaced THEN "Interlaced scan"
    ELSE IF num_interlaced = TelecineCount THEN "Telecined video"
    ELSE "Interlaced scan"

\* What the loop r read and parsed of `len` lines, and what communicate()
\* read after a termination: the lines the child was ahead, if that many
\* were left.
ScanRead(r, len, ahead) ==
    [ran |-> TRUE, parsed |-> Len(r.objs), read |-> r.read, terminated |-> r.terminated,
     drained |-> IF ~r.terminated THEN 0
                 ELSE IF ahead < len - r.read THEN ahead ELSE len - r.read]

\* The end of _get_scan_type after the loop r: the exception of the loop,
\* None for fewer than 40 values, TypeError of the count, or the scan type.
ScanResult(r, scan) ==
    IF r.exc # "none" THEN [exc |-> r.exc, scan_type |-> "None", scan |-> scan]
    ELSE IF Len(r.objs) < ScanFrames
    THEN [exc |-> "none", scan_type |-> "None", scan |-> scan]
    ELSE IF WindowTypeError(r.objs)
    THEN [exc |-> "TypeError", scan_type |-> "None", scan |-> scan]
    ELSE [exc |-> "none", scan_type |-> ScanTypeOf(NumInterlaced(r.objs, Len(r.objs))),
          scan |-> scan]

\* _get_scan_type on the lines of the child's standard output, of which the
\* child is `ahead` lines ahead of the parent when it is terminated:
\* proc.communicate() then reads that many lines more, and drops them. The
\* exit status and the standard error of the child are not looked at.
get_scan_type(lines, ahead) ==
    IF Len(lines) < 2
    THEN [exc |-> "StopIteration", scan_type |-> "None",
          scan |-> [ran |-> TRUE, parsed |-> 0, read |-> Len(lines), terminated |-> FALSE,
                    drained |-> 0]]
    ELSE CHOOSE st \in {ScanResult(r, ScanRead(r, Len(lines), ahead)) :
                            r \in {ReadFrames(lines, 3, <<>>)}} : TRUE

\* The lines of one frame object; flag 2 stands for a frame without the key;
\* a nested frame carries a list of side data.
FrameLines(flag, last, nested) ==
    <<LOpen, LField("media_type", 0)>>
    \o (IF flag = 2 THEN <<>> ELSE <<LField("interlaced_frame", flag)>>)
    \o <<LField("pict_type", 0)>>
    \o (IF nested
        THEN <<LArray("side_data_list"), LOpen, LField("side_data_type", 0),
               LClose(FALSE), LEndArray(FALSE)>>
        ELSE <<>>)
    \o <<LClose(~last)>>

\* What may be odd about one record of the output: a blank line inside it
\* or before it, other text before it, a one-line value in its place, or a
\* key interlaced_frame that holds a list or a dict, as the last value of
\* the key or followed by a number.
OddKinds ==
    {"blank_inside", "blank_before", "other_before", "list_flag", "dict_flag",
     "flag_after_list"} \cup ValueTypes

NoOdd == [kind |-> "none", at |-> 0]

\* The lines of the odd record.
OddLines(kind, flag, last, nested) ==
    CASE kind = "blank_inside" ->
            <<LOpen, LBlank>> \o Tail(FrameLines(flag, last, nested))
      [] kind = "blank_before" -> <<LBlank>> \o FrameLines(flag, last, nested)
      [] kind = "other_before" -> <<LOther("#")>> \o FrameLines(flag, last, nested)
      [] kind = "list_flag" ->
            <<LOpen, LField("interlaced_frame", 1), LArray("interlaced_frame"),
              LEndArray(FALSE), LClose(~last)>>
      [] kind = "dict_flag" ->
            <<LOpen, LObject("interlaced_frame"), LField("top_field_first", 1),
              LClose(FALSE), LClose(~last)>>
      [] kind = "flag_after_list" ->
            <<LOpen, LArray("interlaced_frame"), LEndArray(TRUE),
              LField("interlaced_frame", 1), LClose(~last)>>
      [] OTHER -> <<LValue(kind, ~last)>>

RECURSIVE AllFrameLines(_, _, _, _)
AllFrameLines(flags, k, nested, odd) ==
    IF k = 0 THEN <<>>
    ELSE AllFrameLines(flags, k - 1, nested, odd)
         \o (IF odd.at = k THEN OddLines(odd.kind, flags[k], k = Len(flags), nested)
             ELSE FrameLines(flags[k], k = Len(flags), nested))

\* The whole output for the frames with the given flags.
ProbeOutput(flags, nested, odd) ==
    <<LOpen, LArray("frames")>> \o AllFrameLines(flags, Len(flags), nested, odd)
    \o <<LEndArray(FALSE), LClose(FALSE)>>

\* The flags of a stream of `total` frames: `first` interlaced frames at the
\* head of frames 1..20, `n` interlaced frames at the head or the tail of
\* frames 21..40, the frames after the 40th all interlaced or all not; a frame
\* that is not interlaced has the flag 0, or no flag at all when flagless.
FrameFlags(m) ==
    LET zero == IF m.flagless THEN 2 ELSE 0
    IN  [i \in 1 .. m.total |->
            IF i <= ScanWindowStart THEN (IF i <= m.first THEN 1 ELSE zero)
            ELSE IF i <= ScanFrames
            THEN (IF (IF m.tail THEN i - ScanWindowStart > ScanFrames - ScanWindowStart - m.n
                               ELSE i - ScanWindowStart <= m.n)
                  THEN 1 ELSE zero)
            ELSE (IF m.extra THEN 1 ELSE zero)]

\* A frame probe that runs to its end (or to its termination by the parent).
FrameProbe(m) ==
    [rc |-> 0, stderr |-> <<>>, lines |-> ProbeOutput(FrameFlags(m), m.nested, m.odd), meta |-> m]

\* A frame probe that fails after `keep` lines of output.
FailedFrameProbe(m, keep, stderr) ==
    [rc |-> 1, stderr |-> stderr, lines |-> SubSeq(ProbeOutput(FrameFlags(m), m.nested, m.odd), 1, keep),
     meta |-> m]

FrameMeta(total, first, n, tail, flagless, extra, nested) ==
    [total |-> total, first |-> first, n |-> n, tail |-> tail, flagless |-> flagless,
     extra |-> extra, nested |-> nested, odd |-> NoOdd]

\* The frames of m, the record number `at` being odd.
OddMeta(m, kind, at) == [m EXCEPT !.odd = [kind |-> kind, at |-> at]]

(***************************************************************************)
(* Video (metadata.py)                                                     *)
(***************************************************************************)
MaxStreams == 2
MaxOpens == 2

\* The contents the file may hold over time; it starts with the first.
Contents == {1, 2}

\* The number of chunks of _SHA_CHUNK_SIZE bytes the file holds, whatever
\* its content.
FileChunks == 2

StreamLists == SeqsUpTo(StreamPool, MaxStreams)

\* .format of the metadata probe: the title tag and the duration, if any.
Formats ==
    { [title |-> Absent, duration |-> Str(<<"1", "0">>)],
      [title |-> Str(<<"T">>), duration |-> Absent] }

\* How the frame probe may behave on a file with a video stream.
FrameProbes ==
    { FrameProbe(FrameMeta(ScanFrames + 1, 0, 0, FALSE, FALSE, FALSE, FALSE)),
      FrameProbe(FrameMeta(ScanFrames, AllInterlaced, TelecineCount, FALSE, FALSE, FALSE, FALSE)),
      FrameProbe(FrameMeta(3, 0, 0, FALSE, FALSE, FALSE, FALSE)),
      FailedFrameProbe(FrameMeta(3, 0, 0, FALSE, FALSE, FALSE, FALSE), 0, <<"E", "2">>),
      FailedFrameProbe(FrameMeta(3, 0, 0, FALSE, FALSE, FALSE, FALSE), 9, <<"E", "3">>) }

NoFrameProbe == FailedFrameProbe(FrameMeta(0, 0, 0, FALSE, FALSE, FALSE, FALSE), 0, <<>>)

MissingFile ==
    [exists |-> FALSE, rc1 |-> 0, stderr1 |-> <<>>,
     format |-> [title |-> Absent, duration |-> Absent], streams |-> <<>>,
     probe2 |-> NoFrameProbe]

\* A file on which the metadata probe exits with status 1.
UnprobableFile ==
    [exists |-> TRUE, rc1 |-> 1, stderr1 |-> <<"E", "1">>,
     format |-> [title |-> Absent, duration |-> Absent], streams |-> <<>>,
     probe2 |-> NoFrameProbe]

ProbedFile(fm, dicts, p2) ==
    [exists |-> TRUE, rc1 |-> 0, stderr1 |-> <<>>, format |-> fm, streams |-> dicts,
     probe2 |-> p2]

VideoFiles ==
    {MissingFile, UnprobableFile}
    \cup {ProbedFile(fm, dicts, p2) : fm \in Formats, dicts \in StreamLists, p2 \in FrameProbes}

NoVideo == [sha1sum |-> None]

\* HasVideoStream looking at the first stream only.
HasVideoStream_FirstOnly(streams) ==
    Len(streams) >= 1 /\ streams[1].stream.type = <<"video">>

\* for stream in self.streams: if stream.type == 'video': break
HasVideoStream(streams) ==
    \E k \in 1 .. Len(streams) : streams[k].stream.type = <<"video">>

ConstructionFailed(type, stderr, spawns, scan) ==
    [pc |-> "failed", exc |-> [type |-> type, stderr |-> stderr], spawns |-> spawns,
     video |-> NoVideo, scan |-> scan]

\* float(text) of a text of digits, in milliseconds.
FloatMillis(cs) == NumeralValue(cs) * 1000

\* _get_duration: the duration text util.humantime(float(duration)) gives
\* (two decimals, two hour digits), or None without a duration.
get_duration(format) ==
    IF ~format.duration.present THEN Absent
    ELSE Str(humantime(FloatMillis(format.duration.text), 2, FALSE).value)

ReadyVideo(f, ps, scan_type) ==
    [title |-> f.format.title,
     duration_text |-> get_duration(f.format),
     sha1sum |-> None,
     dimension |-> ps.agg.dimension, dimension_text |-> ps.agg.dimension_text,
     dar |-> ps.agg.dar, dar_text |-> ps.agg.dar_text,
     frame_rate |-> ps.agg.frame_rate, frame_rate_text |-> ps.agg.frame_rate_text,
     scan_type |-> scan_type,
     streams |-> ps.streams]

\* Video.__init__ on the file f, the frame probe being `ahead` lines ahead
\* when it is terminated.
ConstructVideo(f, ahead) ==
    IF ~f.exists THEN ConstructionFailed("OSError", None, 0, NoScan)
    ELSE IF f.rc1 # 0 THEN ConstructionFailed("OSError", f.stderr1, 1, NoScan)
    ELSE LET ps == process_streams(f.streams, Len(f.streams))
         IN  IF ~HasVideoStream(ps.streams)
             THEN [pc |-> "ready", exc |-> NoException, spawns |-> 1,
                   video |-> ReadyVideo(f, ps, "None"), scan |-> NoScan]
             ELSE LET st == get_scan_type(f.probe2.lines, ahead)
                  IN  IF st.exc # "none"
                      THEN ConstructionFailed(st.exc, None, 2, st.scan)
                      ELSE [pc |-> "ready", exc |-> NoException, spawns |-> 2,
                            video |-> ReadyVideo(f, ps, st.scan_type), scan |-> st.scan]

\* hashlib.sha1 fed the chunks read, as hexdigest().upper(); a chunk is
\* named by the content the file held when it was read.
Digest(chunks) == <<chunks>>

\* The digest of the file when it holds the content c during all the reads.
DigestOfContent(c) == Digest([k \in 1 .. FileChunks |-> c])

\* _get_sha1sum that hashes the file on every call.
get_sha1sum_Recompute(v, chunks) ==
    [sha1sum |-> Digest(chunks), opened |-> TRUE]

\* _get_sha1sum: the digest it returns and stores, and whether it opens the
\* file; chunks are what the reads of the loop returned.
get_sha1sum(v, chunks) ==
    IF v.sha1sum # None THEN [sha1sum |-> v.sha1sum, opened |-> FALSE]
    ELSE [sha1sum |-> Digest(chunks), opened |-> TRUE]

\* Stream lines numbered by their place in the list, from 1.
StreamReportLines_Positions(streams) ==
    [k \in 1 .. Len(streams) |-> <<"#", k, streams[k].stream.info_string>>]

\* for stream in self.streams: '    #%d: %s' % (stream.index, stream.info_string)
StreamReportLines(streams) ==
    [k \in 1 .. Len(streams) |-> <<"#", streams[k].index, streams[k].stream.info_string>>]

\* format_metadata: the lines of the report; sha1sum is the digest after _get_sha1sum.
format_metadata(v, include_sha1sum, sha1sum) ==
    (IF v.title.present /\ v.title.text # <<>> THEN <<<<"Title", v.title.text>>>> ELSE <<>>)
    \o << <<"Filename", "filename">>, <<"File size", "size">> >>
    \o (IF include_sha1sum THEN <<<<"SHA-1 digest", sha1sum>>>> ELSE <<>>)
    \o << <<"Container format", "format">> >>
    \o (IF v.duration_text.present THEN <<<<"Duration", v.duration_text.text>>>>
        ELSE <<<<"Duration", "Not available">>>>)
    \o (IF v.dimension_text # None THEN <<<<"Pixel dimensions", v.dimension_text>>>> ELSE <<>>)
    \o (IF v.dar_text # None THEN <<<<"Display aspect ratio", v.dar_text>>>> ELSE <<>>)
    \o (IF v.scan_type # "None" THEN <<<<"Scan type", v.scan_type>>>> ELSE <<>>)
    \o (IF v.frame_rate # None THEN <<<<"Frame rate", v.frame_rate_text>>>> ELSE <<>>)
    \o << <<"Streams:", "">> >>
    \o StreamReportLines(v.streams)

InitVideoOn(files) ==
    /\ UtilIdle
    /\ TileIdle
    /\ ProcIdle
    /\ SBIdle
    /\ FrameIdle
    /\ RunIdle
    /\ vFile \in files
    /\ vpc = "new"
    /\ video = NoVideo
    /\ vExc = NoException
    /\ vSpawns = 0
    /\ fileContent = 1
    /\ fileOpens = 0
    /\ vRet = [op |-> "none"]
    /\ vScan = NoScan
    /\ vHash = NoHash

InitVideo == InitVideoOn(VideoFiles)

\* v = Video(path)
Construct ==
    /\ vpc = "new"
    /\ \E ahead \in 0 .. PipeCapacity :
       \E c \in {ConstructVideo(vFile, ahead)} :
           /\ vpc' = c.pc
           /\ video' = c.video
           /\ vExc' = c.exc
           /\ vSpawns' = c.spawns
           /\ vScan' = c.scan
    /\ UNCHANGED <<vFile, vHash, fileContent, fileOpens, vRet, tileVars, sbVars, frameVars, runVars, utilVars, procVars>>

\* What a call that asked for the digest returns once the digest is known.
DigestCallReturn(h, v, sha1sum, content) ==
    [op |-> h.op, include_sha1sum |-> h.include_sha1sum,
     value |-> IF h.op = "compute_sha1sum" THEN sha1sum ELSE None,
     report |-> IF h.op = "compute_sha1sum" THEN <<>>
                ELSE format_metadata(v, h.include_sha1sum, sha1sum),
     content |-> content]

\* v.compute_sha1sum(params): returns the stored digest, or opens the file
\* and begins to read it.
ComputeSha1sum ==
    /\ vpc = "ready"
    /\ \E print_progress \in BOOLEAN :
        LET g == get_sha1sum(video, <<>>)
            h == [op |-> "compute_sha1sum", include_sha1sum |-> TRUE, chunks |-> <<>>]
        IN  IF g.opened
            THEN /\ vpc' = "hashing"
                 /\ vHash' = h
                 /\ fileOpens' = fileOpens + 1
                 /\ UNCHANGED <<video, vRet>>
            ELSE /\ vRet' = DigestCallReturn(h, video, g.sha1sum, fileContent)
                 /\ video' = [video EXCEPT !.sha1sum = g.sha1sum]
                 /\ UNCHANGED <<vpc, vHash, fileOpens>>
    /\ fileOpens < MaxOpens
    /\ UNCHANGED <<vFile, vExc, vSpawns, vScan, fileContent, tileVars, sbVars, frameVars, runVars, utilVars, procVars>>

\* format_metadata that computes the digest whether asked to or not.
FormatMetadata_AlwaysHashes ==
    /\ vpc = "ready"
    /\ \E include_sha1sum \in BOOLEAN, print_progress \in BOOLEAN :
        LET g == get_sha1sum(video, <<>>)
            h == [op |-> "format_metadata", include_sha1sum |-> include_sha1sum,
                  chunks |-> <<>>]
        IN  IF g.opened
            THEN /\ vpc' = "hashing"
                 /\ vHash' = h
                 /\ fileOpens' = fileOpens + 1
                 /\ UNCHANGED <<video, vRet>>
            ELSE /\ vRet' = DigestCallReturn(h, video, g.sha1sum, fileContent)
                 /\ video' = [video EXCEPT !.sha1sum = g.sha1sum]
                 /\ UNCHANGED <<vpc, vHash, fileOpens>>
    /\ fileOpens < MaxOpens
    /\ UNCHANGED <<vFile, vExc, vSpawns, vScan, fileContent, tileVars, sbVars, frameVars, runVars, utilVars, procVars>>

\* v.format_metadata(params): the report, made at once unless the digest is
\* asked for and has to be computed; then the file is opened and read first.
FormatMetadata ==
    /\ vpc = "ready"
    /\ \E include_sha1sum \in BOOLEAN, print_progress \in BOOLEAN :
        LET g == IF include_sha1sum THEN get_sha1sum(video, <<>>)
                 ELSE [sha1sum |-> video.sha1sum, opened |-> FALSE]
            h == [op |-> "format_metadata", include_sha1sum |-> include_sha1sum,
                  chunks |-> <<>>]
        IN  IF g.opened
            THEN /\ vpc' = "hashing"
                 /\ vHash' = h
                 /\ fileOpens' = fileOpens + 1
                 /\ UNCHANGED <<video, vRet>>
            ELSE /\ vRet' = DigestCallReturn(h, video, g.sha1sum, fileContent)
                 /\ video' = [video EXCEPT !.sha1sum = g.sha1sum]
                 /\ UNCHANGED <<vpc, vHash, fileOpens>>
    /\ fileOpens < MaxOpens
    /\ UNCHANGED <<vFile, vExc, vSpawns, vScan, fileContent, tileVars, sbVars, frameVars, runVars, utilVars, procVars>>

\* _get_sha1sum: video.read(chunksize) returns the next chunk of what the
\* file holds now, and the chunk is fed to the hash.
ReadChunk ==
    /\ vpc = "hashing"
    /\ Len(vHash.chunks) < FileChunks
    /\ vHash' = [vHash EXCEPT !.chunks = Append(@, fileContent)]
    /\ UNCHANGED <<vFile, vpc, video, vExc, vSpawns, vScan, fileContent, fileOpens, vRet, tileVars, sbVars, frameVars, runVars, utilVars, procVars>>

\* _get_sha1sum: after the last chunk, video.read(chunksize) returns b'';
\* the loop ends, the digest is stored and the call that asked for it
\* returns.
ReadEndOfFile ==
    /\ vpc = "hashing"
    /\ Len(vHash.chunks) = FileChunks
    /\ LET g == get_sha1sum(video, vHash.chunks)
       IN  /\ video' = [video EXCEPT !.sha1sum = g.sha1sum]
           /\ vRet' = DigestCallReturn(vHash, video, g.sha1sum, fileContent)
           /\ vpc' = "ready"
           /\ vHash' = NoHash
    /\ UNCHANGED <<vFile, vExc, vSpawns, vScan, fileContent, fileOpens, tileVars, sbVars, frameVars, runVars, utilVars, procVars>>

\* Another program rewrites the file.
ModifyFile ==
    /\ vFile.exists
    /\ \E c \in Contents : c # fileContent /\ fileContent' = c
    /\ UNCHANGED <<vFile, vpc, video, vExc, vSpawns, vScan, vHash, fileOpens, vRet, tileVars, sbVars, frameVars, runVars, utilVars, procVars>>

\* A Video of any file, the file being left alone while it is used.
NextVideo == Construct \/ ComputeSha1sum \/ FormatMetadata \/ ReadChunk \/ ReadEndOfFile

SpecVideo == InitVideo /\ [][NextVideo]_vars

\* A Video of a file that another program may rewrite at any moment, also
\* between two reads of _get_sha1sum; the files are those of at most one
\* stream.
DigestFiles == {f \in VideoFiles : Len(f.streams) <= 1}

InitDigest == InitVideoOn(DigestFiles)

NextDigest ==
    Construct \/ ComputeSha1sum \/ FormatMetadata \/ ReadChunk \/ ReadEndOfFile \/ ModifyFile

SpecDigest == InitDigest /\ [][NextDigest]_vars

\* Files with one video stream, for every shape of the frame probe's output.
ScanTotals == {0, 1, ScanWindowStart, ScanFrames - 1} \cup (ScanFrames .. ScanFrames + MaxExtraFrames)
ScanFirsts == {0, TelecineCount, AllInterlaced}

ScanFile(m) ==
    ProbedFile([title |-> Absent, duration |-> Str(<<"1", "0">>)],
               <<VideoDict(320, 180, Absent, Absent, Absent)>>,
               FrameProbe(m))

\* The records that may be odd: one of the first half, the first and the
\* last of the window, and the first after it.
OddPlaces == {1, ScanWindowStart + 1, ScanFrames, ScanFrames + 1}

\* The frames are plain in every shape, and carry side data in the shapes
\* without a tail, a frame without the key or an extra field; one record is
\* odd in outputs of 39 and of 41 records that hold 0, 8 or 20 flags in
\* the window.
ScanFiles ==
    {ScanFile(FrameMeta(total, first, n, tail, flagless, extra, FALSE)) :
        total \in ScanTotals, first \in ScanFirsts, n \in 0 .. (ScanFrames - ScanWindowStart),
        tail \in BOOLEAN, flagless \in BOOLEAN, extra \in BOOLEAN}
    \cup
    {ScanFile(FrameMeta(total, first, n, FALSE, FALSE, FALSE, TRUE)) :
        total \in ScanTotals, first \in ScanFirsts, n \in 0 .. (ScanFrames - ScanWindowStart)}
    \cup
    {ScanFile(OddMeta(FrameMeta(total, 0, n, FALSE, FALSE, FALSE, FALSE), kind, at)) :
        total \in {ScanFrames - 1, ScanFrames + 1}, n \in {0, TelecineCount, AllInterlaced},
        kind \in OddKinds, at \in OddPlaces}

InitScan == InitVideoOn(ScanFiles)

NextScan == Construct

SpecScan == InitScan /\ [][NextScan]_vars

(***************************************************************************)
(* Properties of Video                                                     *)
(***************************************************************************)
Ready == vpc = "ready"

\* The last call handed out the digest now stored.
DigestReported ==
    /\ vRet.op = "compute_sha1sum" => vRet.value = video.sha1sum
    /\ (vRet.op = "format_metadata" /\ vRet.include_sha1sum) =>
           \E k \in 1 .. Len(vRet.report) :
               vRet.report[k][1] = "SHA-1 digest" /\ vRet.report[k][2] = video.sha1sum

\* C1: once sha1sum is not None, every step (a call of compute_sha1sum or of
\* format_metadata with any parameters, or a change of the file) leaves
\* sha1sum as it is and does not open the file, and the call returns or
\* prints that same value.
C1_DigestStable ==
    [][(Ready /\ video.sha1sum # None) =>
          /\ video'.sha1sum = video.sha1sum
          /\ fileOpens' = fileOpens
          /\ DigestReported']_vars

\* A call made while the file holds its second content hands out the digest
\* of the first content, the file having been opened once.
C1_Witness ==
    /\ Ready
    /\ video.sha1sum = DigestOfContent(1)
    /\ vRet.op = "format_metadata"
    /\ vRet.include_sha1sum
    /\ vRet.content = 2
    /\ fileOpens = 1
    /\ DigestReported

VideoStreamIndices == {k \in 1 .. Len(video.streams) : video.streams[k].stream.type = <<"video">>}
RatedStreamIndices == {k \in VideoStreamIndices : video.streams[k].stream.frame_rate # None}
FirstOf(indices) == CHOOSE k \in indices : \A j \in indices : k <= j

\* C2 as stated: dimension, dar and frame_rate with their texts all equal
\* those of the first video stream, also when its frame rate is None.
C2_AggregatesFromFirstVideo ==
    (Ready /\ VideoStreamIndices # {}) =>
        LET s == video.streams[FirstOf(VideoStreamIndices)].stream
        IN  /\ video.dimension = s.dimension
            /\ video.dimension_text = s.dimension_text
            /\ video.dar = s.dar
            /\ video.dar_text = s.dar_text
            /\ video.frame_rate = s.frame_rate
            /\ video.frame_rate_text = s.frame_rate_text

\* C2: dimension and dar with their texts equal those of the first video
\* stream; frame_rate and frame_rate_text equal those of the first video
\* stream whose frame rate is available, and are None when there is none.
C2_AggregatesPerAttribute ==
    Ready =>
        /\ IF VideoStreamIndices = {}
           THEN /\ video.dimension = None
                /\ video.dimension_text = None
                /\ video.dar = None
                /\ video.dar_text = None
           ELSE LET s == video.streams[FirstOf(VideoStreamIndices)].stream
                IN  /\ video.dimension = s.dimension
                    /\ video.dimension_text = s.dimension_text
                    /\ video.dar = s.dar
                    /\ video.dar_text = s.dar_text
        /\ IF RatedStreamIndices = {}
           THEN /\ video.frame_rate = None
                /\ video.frame_rate_text = None
           ELSE LET r == video.streams[FirstOf(RatedStreamIndices)].stream
                IN  /\ video.frame_rate = r.frame_rate
                    /\ video.frame_rate_text = r.frame_rate_text

\* The first video stream has no frame rate and a later one, of another
\* size, supplies it.
C2_Witness ==
    /\ Ready
    /\ Len(video.streams) = 2
    /\ video.streams[1].stream.type = <<"video">>
    /\ video.streams[2].stream.type = <<"video">>
    /\ video.streams[1].stream.frame_rate = None
    /\ video.streams[2].stream.frame_rate # None
    /\ video.streams[1].stream.dimension # video.streams[2].stream.dimension
    /\ video.frame_rate = video.streams[2].stream.frame_rate
    /\ video.dimension = video.streams[1].stream.dimension

\* The odd record of the frame probe's output, if it has one among the
\* records that are read: the first 40.
OddRecord == vFile.probe2.meta.odd

OddIsRead ==
    /\ OddRecord.kind # "none"
    /\ OddRecord.at <= ScanFrames
    /\ OddRecord.at <= vFile.probe2.meta.total

OddInWindow == OddIsRead /\ OddRecord.at > ScanWindowStart

\* The exception the odd record makes _get_scan_type raise: IndexError for
\* a blank line between two records; TypeError, once 40 records are parsed,
\* for a record of the window that is a number, null or a string holding
\* the text interlaced_frame, or whose interlaced_frame holds a list or a
\* dict.
ScanRaises ==
    IF OddIsRead /\ OddRecord.kind = "blank_before" THEN "IndexError"
    ELSE IF /\ OddInWindow
            /\ vFile.probe2.meta.total >= ScanFrames
            /\ OddRecord.kind \in {"number", "null", "key_string", "list_flag", "dict_flag"}
    THEN "TypeError"
    ELSE "none"

\* The records parsed: all of them up to the 40th, or those before the
\* text that is no JSON.
RecordsParsed ==
    IF OddIsRead /\ OddRecord.kind = "other_before" THEN OddRecord.at - 1
    ELSE IF vFile.probe2.meta.total >= ScanFrames THEN ScanFrames
    ELSE vFile.probe2.meta.total

\* The interlaced flags among records 21 to 40: the n of the stream, less
\* the flag of an odd record that is a string or an empty object, plus the
\* flag that follows the list in an odd record.
WindowFlags ==
    LET m == vFile.probe2.meta
        flagged == OddInWindow /\ FrameFlags(m)[OddRecord.at] = 1
    IN  m.n
        - (IF flagged /\ OddRecord.kind \in {"string", "object"} THEN 1 ELSE 0)
        + (IF OddInWindow /\ ~flagged /\ OddRecord.kind = "flag_after_list" THEN 1 ELSE 0)

ScanTypeOfFlags(n) ==
    CASE n = 0 -> "Progressive scan"
      [] n = 20 -> "Interlaced scan"
      [] n = 8 -> "Telecined video"
      [] OTHER -> "Interlaced scan"

FailedWithStderr(stderr) ==
    /\ vpc = "failed"
    /\ vExc.type = "OSError"
    /\ vExc.stderr = stderr

\* C9: a probe that exits with a non-zero status, be it the metadata probe
\* or the frame probe, makes construction fail with OSError carrying the
\* probe's standard error.
C9_FailedProbeRaisesOSError ==
    vpc # "new" =>
        /\ (vSpawns >= 1 /\ vFile.rc1 # 0) => FailedWithStderr(vFile.stderr1)
        /\ (vSpawns >= 2 /\ vFile.probe2.rc # 0) => FailedWithStderr(vFile.probe2.stderr)

FileHasVideoStream ==
    \E k \in 1 .. Len(vFile.streams) : vFile.streams[k].codec_type = Str(<<"video">>)

\* C10 as stated: constructing a Video on an existing file spawns the prober
\* exactly once.
C10_ProbedExactlyOnce ==
    (vpc # "new" /\ vFile.exists) => vSpawns = 1

\* C10: construction spawns no prober for a missing file, one when the
\* metadata probe fails or reports no video stream, and two (the metadata
\* probe, then the frame probe) when a video stream is reported.
C10_ProbeCount ==
    vpc # "new" =>
        vSpawns = (IF ~vFile.exists THEN 0
                   ELSE IF vFile.rc1 # 0 THEN 1
                   ELSE IF FileHasVideoStream THEN 2
                   ELSE 1)

\* A file whose second stream is its only video stream: two probes.
C10_Witness ==
    /\ Ready
    /\ Len(vFile.streams) = 2
    /\ vFile.streams[1].codec_type = Str(<<"audio">>)
    /\ vFile.streams[2].codec_type = Str(<<"video">>)
    /\ vSpawns = 2

(***************************************************************************)
(* extract_frame (frame.py)                                                *)
(***************************************************************************)
\* Bytes are numbers 0..255; the texts of this part are sequences of bytes.
Newline == 10
LetterE == 69
InvalidByte == 255

\* What ffmpeg may write to its standard output: nothing, an image, or
\* bytes that are no image.
ImageBytes == <<137, 80>>
GarbageBytes == <<0>>
FrameOutputs == {<<>>, ImageBytes, GarbageBytes}

\* What ffmpeg may write to its standard error.
FrameErrors == {<<>>, <<LetterE, Newline>>, <<LetterE, InvalidByte>>}

\* Timestamps in seconds.
FrameTimestamps == {0, 1, 5}

FrameCalls ==
    [exists : BOOLEAN, timestamp : FrameTimestamps, frame_by_frame : BOOLEAN,
     rc : {0, 1}, stdout : FrameOutputs, stderr : FrameErrors]

IsSpace(b) == b \in {9, 10, 11, 12, 13, 32}

\* bytes.strip()
RECURSIVE Strip(_)
Strip(bs) ==
    IF bs = <<>> THEN bs
    ELSE IF IsSpace(bs[1]) THEN Strip(SubSeq(bs, 2, Len(bs)))
    ELSE IF IsSpace(bs[Len(bs)]) THEN Strip(SubSeq(bs, 1, Len(bs) - 1))
    ELSE bs

\* bytes.decode('utf-8') succeeds; the bytes used here are ASCII or 255.
Utf8Decodes(bs) == \A k \in 1 .. Len(bs) : bs[k] < 128

\* PIL.Image.open(io.BytesIO(frame_bytes)) succeeds.
ImageOpens(bs) == bs = ImageBytes

FrameRaise(type, reason, c, spawns, text) ==
    [kind |-> type, reason |-> reason, timestamp |-> c.timestamp, spawns |-> spawns,
     stderr |-> text]

\* The message built with ffmpeg_err.strip().decode('utf-8'): the decoding
\* raises UnicodeDecodeError before OSError is raised.
FrameRaiseWithStderr(reason, c) ==
    IF Utf8Decodes(Strip(c.stderr)) THEN FrameRaise("OSError", reason, c, 1, Strip(c.stderr))
    ELSE FrameRaise("UnicodeDecodeError", "", c, 1, <<>>)

\* extract_frame(video_path, timestamp, params)
extract_frame(c) ==
    IF ~c.exists THEN FrameRaise("OSError", "missing", c, 0, <<>>)
    ELSE IF c.rc # 0 THEN FrameRaiseWithStderr("exit", c)
    ELSE IF c.stdout = <<>> THEN FrameRaiseWithStderr("empty", c)
    ELSE IF ~ImageOpens(c.stdout) THEN FrameRaise("OSError", "undecodable", c, 1, <<>>)
    ELSE [kind |-> "Frame", reason |-> "", timestamp |-> c.timestamp, spawns |-> 1,
          stderr |-> <<>>]

InitFrame ==
    /\ UtilIdle
    /\ TileIdle
    /\ ProcIdle
    /\ SBIdle
    /\ VideoIdle
    /\ RunIdle
    /\ fCall \in FrameCalls
    /\ fpc = "idle"
    /\ fResult = [kind |-> "none"]

\* One call extract_frame(video_path, timestamp, params).
ExtractFrame ==
    /\ fpc = "idle"
    /\ fResult' = extract_frame(fCall)
    /\ fpc' = "done"
    /\ UNCHANGED <<fCall, tileVars, sbVars, videoVars, runVars, utilVars, procVars>>

NextFrame == ExtractFrame

SpecFrame == InitFrame /\ [][NextFrame]_vars

\* C11: extract_frame returns a Frame with the requested timestamp only if
\* the file exists, ffmpeg exits with 0, its output is not empty and decodes
\* as an image; otherwise it raises OSError, for the first of: missing file
\* (no process spawned), non-zero exit (with stderr and timestamp), empty
\* output, undecodable output.
C11_ExtractFrameOutcome ==
    fpc = "done" =>
        IF ~fCall.exists
        THEN fResult.kind = "OSError" /\ fResult.reason = "missing" /\ fResult.spawns = 0
        ELSE IF fCall.rc # 0
        THEN fResult.kind = "OSError" /\ fResult.reason = "exit"
             /\ fResult.timestamp = fCall.timestamp
        ELSE IF fCall.stdout = <<>>
        THEN fResult.kind = "OSError" /\ fResult.reason = "empty"
        ELSE IF fCall.stdout # ImageBytes
        THEN fResult.kind = "OSError" /\ fResult.reason = "undecodable"
        ELSE fResult.kind = "Frame" /\ fResult.timestamp = fCall.timestamp

(***************************************************************************)
(* Properties of the streams of a Video                                    *)
(***************************************************************************)
\* evaluate_ratio of a key of a probe record; None when the key is absent.
RatioOfKey(field) == IF field.present THEN evaluate_ratio(field.text) ELSE None

\* C12: the frame rate of every video stream is evaluate_ratio(r_frame_rate)
\* when that parses, else evaluate_ratio(avg_frame_rate) when that parses,
\* else None.
C12_FrameRateFallback ==
    Ready =>
        \A k \in 1 .. Len(video.streams) :
            video.streams[k].stream.type = <<"video">> =>
                LET d == vFile.streams[k]
                IN  video.streams[k].stream.frame_rate =
                        (IF RatioOfKey(d.r_frame_rate) # None THEN RatioOfKey(d.r_frame_rate)
                         ELSE RatioOfKey(d.avg_frame_rate))

GreatestCommonDivisor(a, b) ==
    CHOOSE g \in 1 .. a : /\ a % g = 0
                          /\ b % g = 0
                          /\ \A h \in g + 1 .. a : a % h # 0 \/ b % h # 0

\* C13: dar and dar_text of every video stream are the reported
\* display_aspect_ratio, value and string, when it is present and parses;
\* otherwise dar = width / height and dar_text = 'w:h' with width and height
\* divided by their greatest common divisor.
C13_DisplayAspectRatio ==
    Ready =>
        \A k \in 1 .. Len(video.streams) :
            video.streams[k].stream.type = <<"video">> =>
                LET d == vFile.streams[k]
                    s == video.streams[k].stream
                    g == GreatestCommonDivisor(d.width, d.height)
                IN  IF RatioOfKey(d.display_aspect_ratio) # None
                    THEN /\ s.dar = RatioOfKey(d.display_aspect_ratio)
                         /\ s.dar_text = d.display_aspect_ratio.text
                    ELSE /\ s.dar = <<d.width \div g, d.height \div g>>
                         /\ s.dar_text = ToChars(d.width \div g) \o <<":">>
                                         \o ToChars(d.height \div g)

\* A degenerate reported ratio, an absent one and a parseable one.
C13_Witness ==
    /\ Ready
    /\ Len(video.streams) = 2
    /\ vFile.streams[1].display_aspect_ratio = Str(<<"0", ":", "1">>)
    /\ video.streams[1].stream.dar = <<5, 4>>
    /\ video.streams[1].stream.dar_text = <<"5", ":", "4">>
    /\ ~vFile.streams[2].display_aspect_ratio.present
    /\ vFile.streams[2].codec_type = Str(<<"video">>)
    /\ video.streams[2].stream.dar = <<16, 9>>
    /\ video.streams[2].stream.dar_text = <<"1", "6", ":", "9">>

\* The distance of n / d to the nearest integer, in units of 1 / d.
DistanceToInteger(n, d) == IF 2 * (n % d) <= d THEN n % d ELSE d - (n % d)
NearestInteger(n, d) == IF 2 * (n % d) <= d THEN n \div d ELSE (n \div d) + 1

\* C14: frame_rate_text of every video stream with a frame rate r is the
\* integer form '<k> fps' exactly when r is within 1e-4 of an integer k, be r
\* above or below k, and the two-decimal form otherwise.
C14_FrameRateText ==
    Ready =>
        \A i \in 1 .. Len(video.streams) :
            LET s == video.streams[i].stream
            IN  (s.type = <<"video">> /\ s.frame_rate # None) =>
                    LET n == s.frame_rate[1]
                        d == s.frame_rate[2]
                    IN  IF DistanceToInteger(n, d) * 10000 < d
                        THEN s.frame_rate_text = <<"%d fps", NearestInteger(n, d)>>
                        ELSE s.frame_rate_text[1] = "%.2f fps"

(***************************************************************************)
(* Properties of the digest and of the report                              *)
(***************************************************************************)
\* The call in progress, or else the last call, asked for the digest.
DigestRequested ==
    IF vpc = "hashing"
    THEN vHash.op = "compute_sha1sum" \/ vHash.include_sha1sum
    ELSE \/ vRet.op = "compute_sha1sum"
         \/ vRet.op = "format_metadata" /\ vRet.include_sha1sum

HasLine(report, label) == \E k \in 1 .. Len(report) : report[k][1] = label

\* C15: sha1sum is None when construction finishes; the file is opened and
\* sha1sum set only by a call of compute_sha1sum or of format_metadata with
\* include_sha1sum true, made while sha1sum is None; a report made with
\* include_sha1sum false has no 'SHA-1 digest' line.
C15_DigestOnRequestOnly ==
    [][/\ (vpc = "new" /\ vpc' = "ready") => (video'.sha1sum = None /\ fileOpens' = 0)
       /\ (vpc \in {"ready", "hashing"}
              /\ (fileOpens' # fileOpens \/ video'.sha1sum # video.sha1sum)) =>
              (video.sha1sum = None /\ DigestRequested')
       /\ (vRet'.op = "format_metadata" /\ ~vRet'.include_sha1sum) =>
              ~HasLine(vRet'.report, "SHA-1 digest")]_vars

\* A report without the digest, made while the digest is cached.
C15_Witness ==
    /\ Ready
    /\ video.sha1sum # None
    /\ fileOpens = 1
    /\ vRet.op = "format_metadata"
    /\ ~vRet.include_sha1sum
    /\ ~HasLine(vRet.report, "SHA-1 digest")
    /\ HasLine(vRet.report, "Filename")

ReportOrder ==
    <<"Title", "Filename", "File size", "SHA-1 digest", "Container format", "Duration",
      "Pixel dimensions", "Display aspect ratio", "Scan type", "Frame rate", "Streams:">>

Rank(label) == CHOOSE r \in 1 .. Len(ReportOrder) : ReportOrder[r] = label

\* The head of the report, up to 'Streams:', lists labels of ReportOrder in
\* that order, and the stream lines follow in stream order.
ReportInOrder(report) ==
    LET n == Len(report) - Len(video.streams)
    IN  /\ n >= 1
        /\ report[n][1] = "Streams:"
        /\ \A k \in 1 .. n : \E r \in 1 .. Len(ReportOrder) : ReportOrder[r] = report[k][1]
        /\ \A k \in 1 .. n - 1 : Rank(report[k][1]) < Rank(report[k + 1][1])
        /\ \A i \in 1 .. Len(video.streams) :
               report[n + i] = <<"#", video.streams[i].index,
                                 video.streams[i].stream.info_string>>

OptionalLines(report, include_sha1sum) ==
    /\ HasLine(report, "SHA-1 digest") <=> include_sha1sum
    /\ HasLine(report, "Pixel dimensions") <=> video.dimension # None
    /\ HasLine(report, "Display aspect ratio") <=> video.dar # None
    /\ HasLine(report, "Scan type") <=> video.scan_type # "None"
    /\ HasLine(report, "Frame rate") <=> video.frame_rate # None

\* C16 as stated: every report is in the fixed order, has the lines Title,
\* Filename, File size, Container format, Duration and 'Streams:', and has
\* each optional line exactly when its value is available.
C16_ReportWithTitleAlways ==
    vRet.op = "format_metadata" =>
        /\ ReportInOrder(vRet.report)
        /\ \A label \in {"Title", "Filename", "File size", "Container format", "Duration",
                         "Streams:"} : HasLine(vRet.report, label)
        /\ OptionalLines(vRet.report, vRet.include_sha1sum)

\* C16: every report is in the fixed order, has the lines Filename, File
\* size, Container format, Duration and 'Streams:', has the Title line
\* exactly when the file has a title, and has each other optional line
\* exactly when its value is available (the digest: when requested).
C16_ReportFormat ==
    vRet.op = "format_metadata" =>
        /\ ReportInOrder(vRet.report)
        /\ \A label \in {"Filename", "File size", "Container format", "Duration",
                         "Streams:"} : HasLine(vRet.report, label)
        /\ HasLine(vRet.report, "Title") <=> (video.title.present /\ video.title.text # <<>>)
        /\ OptionalLines(vRet.report, vRet.include_sha1sum)

\* A report with every line, for a file with two streams.
C16_Witness ==
    /\ vRet.op = "format_metadata"
    /\ Len(video.streams) = 2
    /\ Len(vRet.report) = Len(ReportOrder) + 2
    /\ vRet.report[1][1] = "Title"
    /\ vRet.report[Len(ReportOrder)][1] = "Streams:"
    /\ vRet.report[Len(vRet.report)][2] = 1

\* The prober numbers the stream records from 0 in the order it lists them.
ProberIndex(k) == k - 1

\* C17 as stated: every Stream has one of the types video, audio, subtitle,
\* data, unknown; a record without codec_type gives 'unknown' and 'Data';
\* the index is the prober's.
C17_StreamTypeClosedSet ==
    Ready =>
        \A k \in 1 .. Len(video.streams) :
            LET s == video.streams[k].stream
            IN  /\ s.type \in {<<"video">>, <<"audio">>, <<"subtitle">>, <<"data">>,
                               <<"unknown">>}
                /\ ~vFile.streams[k].codec_type.present =>
                       (s.type = <<"unknown">> /\ s.info_string = <<"Data">>)
                /\ video.streams[k].index = ProberIndex(k)

\* C17: the type of every Stream is the codec_type the prober reports,
\* whatever it is, and 'unknown' for a record without codec_type; a record
\* whose codec_type is missing or is none of video, audio, subtitle has the
\* info_string 'Data'; the index is the prober's.
C17_StreamType ==
    Ready =>
        \A k \in 1 .. Len(video.streams) :
            LET s == video.streams[k].stream
                d == vFile.streams[k]
            IN  /\ s.type = (IF d.codec_type.present THEN d.codec_type.text
                             ELSE <<"unknown">>)
                /\ (~d.codec_type.present
                    \/ d.codec_type.text \notin {<<"video">>, <<"audio">>, <<"subtitle">>})
                       => s.info_string = <<"Data">>
                /\ video.streams[k].index = ProberIndex(k)

\* An attachment stream followed by a record without codec_type.
C17_Witness ==
    /\ Ready
    /\ Len(video.streams) = 2
    /\ vFile.streams[1].codec_type = Str(<<"attachment">>)
    /\ video.streams[1].stream.type = <<"attachment">>
    /\ video.streams[1].stream.info_string = <<"Data">>
    /\ ~vFile.streams[2].codec_type.present
    /\ video.streams[2].stream.type = <<"unknown">>
    /\ video.streams[2].index = 1

(***************************************************************************)
(* Properties of the order of the image list of tile_images                *)
(***************************************************************************)
\* The paste t sits at the corner of column c, row r of a consistent grid.
PlacedAt(t, c, r) ==
    /\ t.x = tparams.margins[1] + SumColWidths(c) + c * tparams.tile_spacing[1]
    /\ t.y = tparams.margins[2] + SumRowHeights(r) + r * tparams.tile_spacing[2]

\* C18 as stated: the list is column-major, the image at list index i is
\* placed in column i div rows, row i mod rows.
C18_ColumnMajor ==
    (TileDone /\ Strict /\ ~tresult.raised) =>
        \A k \in 1 .. Len(tresult.pastes) :
            PlacedAt(tresult.pastes[k], tresult.pastes[k].index \div Rows,
                     tresult.pastes[k].index % Rows)

\* C18: the list is row-major, the image at list index i is placed in
\* column i mod cols, row i div cols, and every image of the list is placed.
C18_RowMajor ==
    (TileDone /\ Strict /\ ~tresult.raised) =>
        /\ \A k \in 1 .. Len(tresult.pastes) :
               PlacedAt(tresult.pastes[k], tresult.pastes[k].index % Cols,
                        tresult.pastes[k].index \div Cols)
        /\ {tresult.pastes[k].index : k \in 1 .. Len(tresult.pastes)}
               = 0 .. Len(images) - 1

\* On a 2x2 grid the image at list index 1 is at the top of the second column.
C18_Witness ==
    /\ TileDone /\ Strict /\ ~tresult.raised /\ tile = <<2, 2>>
    /\ tparams.tile_spacing = <<1, 2>> /\ tparams.margins = <<3, 5>>
    /\ \E k \in 1 .. Len(tresult.pastes) :
           /\ tresult.pastes[k].index = 1
           /\ tresult.pastes[k].y = 5
           /\ tresult.pastes[k].x = 3 + images[1].w + 1

(***************************************************************************)
(* Properties of the timestamp overlay                                     *)
(***************************************************************************)
\* A gen_storyboard call without the overlay, every frame extracted, the
\* frames list holding one frame per tile.
CallWithoutTimestamp ==
    /\ sbRet.op = "gen_storyboard"
    /\ sbRet.failAt = 0
    /\ ~sbRet.params.draw_timestamp
    /\ Len(sbFrames) = sbRet.params.tile[1] * sbRet.params.tile[2]

\* C19: gen_storyboard with draw_timestamp false completes without raising
\* and returns a storyboard of the size it has with the overlay.
C19_TimestampOptional ==
    CallWithoutTimestamp =>
        /\ ~sbRet.raised
        /\ sbRet.size =
               gen_storyboard([raised |-> FALSE, frames |-> sbFrames], sbVideo,
                              [sbRet.params EXCEPT !.draw_timestamp = TRUE], 0).size

(***************************************************************************)
(* Runs: StoryBoard construction and the two command lines                 *)
(* (storyboard.py, metadata.py, fflocate.py)                               *)
(***************************************************************************)
MaxRunFiles == 2

\* The binaries, and None in the place of a binary that is not to be checked.
NoBinary == 0
Ffmpeg == 1
Ffprobe == 2

\* What running a binary with -version does: it exits with status 0, it
\* cannot be launched, it is launched and exits with another status.
ToolStates == {"ok", "missing", "corrupt"}

Tools == [{Ffmpeg, Ffprobe} -> ToolStates]

\* StoryBoard(path), StoryBoard(a Video made earlier), and the two mains.
Entries == {"StoryBoard", "StoryBoardOfVideo", "storyboard-cli", "metadata-cli"}

\* A file: fine ("good"); absent ("missing"); one on which the metadata
\* probe fails ("unprobable"); one on which the frame probe writes nothing
\* ("frameprobefails"); one on which ffmpeg fails with a readable
\* ("undecodable") or an undecodable ("garbled") error text; one for which
\* ffmpeg writes no frame ("noframe") or bytes that are no image ("malformed").
FileKinds == {"good", "missing", "unprobable", "frameprobefails",
              "undecodable", "garbled", "noframe", "malformed"}

\* The kinds of file for which Video(path) does not return.
NoVideoKinds == {"missing", "unprobable", "frameprobefails"}

RunFileLists == SeqsUpTo(FileKinds, MaxRunFiles) \ {<<>>}

\* A Video object exists only for a file on which the constructor returned.
RunConfs ==
    {c \in [entry : Entries, tools : Tools, files : RunFileLists] :
        c.entry = "StoryBoardOfVideo" => c.files[1] \notin NoVideoKinds}

\* Something the run did: kind is "version" (a '<binary> -version' process
\* of check_bins, arg the binary), "probe" (an ffprobe process on file arg),
\* "decode" (the ffmpeg processes extracting the frames of file arg) or
\* "output" (the storyboard or report of file arg written).
Event(kind, arg) == [kind |-> kind, arg |-> arg]

NoReturn == [exc |-> "", msg |-> <<>>, value |-> 0]

\* The positions of a bins tuple that name a binary.
NamedPositions(bins) == {k \in 1 .. Len(bins) : bins[k] # NoBinary}

\* The result of check_bins: ok, the binary and the text of the OSError
\* otherwise, and the -version processes it launched or tried to.
CheckResult(bins, tools, lastChecked) ==
    LET named == SelectSeq(bins, LAMBDA b : b # NoBinary)
        bad == {k \in 1 .. Len(named) : tools[named[k]] # "ok"}
        first == IF bad = {} THEN 0 ELSE CHOOSE k \in bad : \A j \in bad : k <= j
    IN  [ok |-> bad = {},
         binary |-> IF bad = {} THEN NoBinary ELSE named[first],
         error |-> IF bad = {} THEN ""
                   ELSE IF tools[named[first]] = "missing" THEN "not found on PATH"
                   ELSE "may be corrupted",
         log |-> [k \in 1 .. (IF lastChecked = 0 THEN first ELSE lastChecked)
                      |-> Event("version", named[k])]]

\* check_bins that looks at the first binary of the tuple only.
check_bins_FirstOnly(bins, tools) ==
    CheckResult(SubSeq(bins, 1, 1), tools, Len(SelectSeq(SubSeq(bins, 1, 1), LAMBDA b : b # NoBinary)))

\* check_bins that runs every binary before it reports the first failure.
check_bins_ChecksAll(bins, tools) ==
    CheckResult(bins, tools, Len(SelectSeq(bins, LAMBDA b : b # NoBinary)))

\* check_bins(bins): the binaries that are not None are run in turn with
\* -version; OSError at the first that fails.
check_bins(bins, tools) ==
    LET all == CheckResult(bins, tools, Len(SelectSeq(bins, LAMBDA b : b # NoBinary)))
    IN  IF all.ok THEN all ELSE CheckResult(bins, tools, 0)

\* The bins tuple of an entry point: main of metadata.py checks (None, ffprobe_bin).
BinsOf(entry) == IF entry = "metadata-cli" THEN <<NoBinary, Ffprobe>> ELSE <<Ffmpeg, Ffprobe>>

\* Video(path): nothing is spawned for a path that does not exist; the
\* metadata probe, and the frame probe when it succeeded.
ProbeEvents(k, kind) ==
    IF kind = "missing" THEN <<>>
    ELSE IF kind = "unprobable" THEN <<Event("probe", k)>>
    ELSE <<Event("probe", k), Event("probe", k)>>

\* The exception Video(path) ends with, "" when it returns.
VideoException(kind) ==
    IF kind \in {"missing", "unprobable"} THEN "OSError"
    ELSE IF kind = "frameprobefails" THEN "StopIteration"
    ELSE ""

\* The exception gen_storyboard ends with, "" when it returns.
DecodeException(kind) ==
    IF kind \in {"undecodable", "noframe", "malformed"} THEN "OSError"
    ELSE IF kind = "garbled" THEN "UnicodeDecodeError"
    ELSE ""

\* StoryBoard(video, params): check_bins, then Video(video) when video is a
\* path; a Video object is taken as it is.
StoryBoardInit(k, kind, tools, isVideo) ==
    LET c == check_bins(<<Ffmpeg, Ffprobe>>, tools)
    IN  IF ~c.ok THEN [exc |-> "OSError", log |-> c.log]
        ELSE IF isVideo THEN [exc |-> "", log |-> c.log]
        ELSE [exc |-> VideoException(kind), log |-> c.log \o ProbeEvents(k, kind)]

\* One round of the loop of main in storyboard.py:
\* StoryBoard(video).gen_storyboard(), then the image is saved and its path printed.
StoryboardRound(k, kind, tools) ==
    LET sb == StoryBoardInit(k, kind, tools, FALSE)
    IN  IF sb.exc # "" THEN sb
        ELSE IF DecodeException(kind) # ""
             THEN [exc |-> DecodeException(kind), log |-> sb.log \o <<Event("decode", k)>>]
        ELSE [exc |-> "", log |-> sb.log \o <<Event("decode", k), Event("output", k)>>]

\* One round of the loop of main in metadata.py: Video(video), then the report is printed.
MetadataRound(k, kind) ==
    IF VideoException(kind) # ""
    THEN [exc |-> VideoException(kind), log |-> ProbeEvents(k, kind)]
    ELSE [exc |-> "", log |-> ProbeEvents(k, kind) \o <<Event("output", k)>>]

InitRun ==
    /\ UtilIdle
    /\ TileIdle
    /\ ProcIdle
    /\ SBIdle
    /\ VideoIdle
    /\ FrameIdle
    /\ rConf \in RunConfs
    /\ rpc = "start"
    /\ rNext = 1
    /\ rLog = <<>>
    /\ rRet = NoReturn

\* main, up to the loop over the videos: check_bins, exit(1) when it raises.
MainCheck ==
    /\ rpc = "start"
    /\ rConf.entry \in {"storyboard-cli", "metadata-cli"}
    /\ LET c == check_bins(BinsOf(rConf.entry), rConf.tools)
       IN  /\ rLog' = rLog \o c.log
           /\ rpc' = IF c.ok THEN "running" ELSE "exited"
           /\ rRet' = IF c.ok THEN rRet ELSE [rRet EXCEPT !.value = 1]
    /\ UNCHANGED <<rConf, rNext, tileVars, sbVars, videoVars, frameVars, utilVars, procVars>>

\* main: one round of 'for video in cli_args.videos'; an OSError is
\* reported and the loop goes on with returncode 1, any other exception
\* ends the program with a traceback and status 1.
MainRound ==
    /\ rpc = "running"
    /\ rNext <= Len(rConf.files)
    /\ LET r == IF rConf.entry = "storyboard-cli"
                THEN StoryboardRound(rNext, rConf.files[rNext], rConf.tools)
                ELSE MetadataRound(rNext, rConf.files[rNext])
       IN  /\ rLog' = rLog \o r.log
           /\ rRet' = IF r.exc = "" THEN rRet
                      ELSE IF r.exc = "OSError" THEN [rRet EXCEPT !.value = 1]
                      ELSE [exc |-> r.exc, msg |-> <<>>, value |-> 1]
           /\ rpc' = IF r.exc \notin {"", "OSError"} THEN "crashed"
                     ELSE IF rNext = Len(rConf.files) THEN "exited"
                     ELSE "running"
    /\ rNext' = rNext + 1
    /\ UNCHANGED <<rConf, tileVars, sbVars, videoVars, frameVars, utilVars, procVars>>

\* StoryBoard(video) called by a program, on the first file.
ConstructStoryBoard ==
    /\ rpc = "start"
    /\ rConf.entry \in {"StoryBoard", "StoryBoardOfVideo"}
    /\ LET r == StoryBoardInit(1, rConf.files[1], rConf.tools,
                               rConf.entry = "StoryBoardOfVideo")
       IN  /\ rLog' = rLog \o r.log
           /\ rRet' = [rRet EXCEPT !.exc = r.exc]
    /\ rNext' = 2
    /\ rpc' = "exited"
    /\ UNCHANGED <<rConf, tileVars, sbVars, videoVars, frameVars, utilVars, procVars>>

NextRun == MainCheck \/ MainRound \/ ConstructStoryBoard

SpecRun == InitRun /\ [][NextRun]_vars

Processing == {"probe", "decode", "output"}

\* The tools the entry point needs are all installed.
ToolsAvailable ==
    \A k \in NamedPositions(BinsOf(rConf.entry)) : rConf.tools[BinsOf(rConf.entry)[k]] = "ok"

\* C20: every probe, decode and output of a run comes after the check of
\* each binary the entry point names, and a run whose check fails probes
\* nothing, decodes nothing and writes no output, for any file.
C20_CheckPrecedesProcessing ==
    /\ \A k \in 1 .. Len(rLog) :
           rLog[k].kind \in Processing =>
               \A b \in 1 .. 2 :
                   BinsOf(rConf.entry)[b] # NoBinary =>
                       \E j \in 1 .. k - 1 : rLog[j] = Event("version", BinsOf(rConf.entry)[b])
    /\ ~ToolsAvailable => \A k \in 1 .. Len(rLog) : rLog[k].kind \notin Processing

\* A storyboard run over two files that ended, having checked both binaries
\* first and written the storyboard of the second file last.
C20_Witness ==
    /\ rConf.entry = "storyboard-cli"
    /\ rpc = "exited"
    /\ Len(rConf.files) = 2
    /\ Len(rLog) > 4
    /\ rLog[1] = Event("version", Ffmpeg)
    /\ rLog[2] = Event("version", Ffprobe)
    /\ rLog[Len(rLog)] = Event("output", 2)

(***************************************************************************)
(* check_bins called on its own (fflocate.py)                              *)
(***************************************************************************)
BinsTuples == [1 .. 2 -> {NoBinary, Ffmpeg, Ffprobe}]

InitCheck ==
    /\ UtilIdle
    /\ TileIdle
    /\ ProcIdle
    /\ SBIdle
    /\ VideoIdle
    /\ FrameIdle
    /\ rConf \in [entry : {"check_bins"}, tools : Tools, bins : BinsTuples]
    /\ rpc = "start"
    /\ rNext = 1
    /\ rLog = <<>>
    /\ rRet = NoReturn

\* check_bins(bins)
CheckBins ==
    /\ rpc = "start"
    /\ rConf.entry = "check_bins"
    /\ LET c == check_bins(rConf.bins, rConf.tools)
       IN  /\ rLog' = c.log
           /\ rRet' = IF c.ok THEN [exc |-> "", msg |-> <<>>, value |-> TRUE]
                      ELSE [exc |-> "OSError", msg |-> <<c.binary, c.error>>, value |-> 0]
    /\ rpc' = "exited"
    /\ UNCHANGED <<rConf, rNext, tileVars, sbVars, videoVars, frameVars, utilVars, procVars>>

NextCheck == CheckBins

SpecCheck == InitCheck /\ [][NextCheck]_vars

\* The positions of the tuple whose binary does not run to status 0.
FailingPositions == {k \in NamedPositions(rConf.bins) : rConf.tools[rConf.bins[k]] # "ok"}

\* The first failing position, or the last position when none fails.
LastCheckedPosition ==
    IF FailingPositions = {} THEN Len(rConf.bins)
    ELSE CHOOSE k \in FailingPositions : \A j \in FailingPositions : k <= j

\* The named position whose check is the i-th process launched.
PositionOfLaunch(i) ==
    CHOOSE k \in NamedPositions(rConf.bins) :
        Cardinality({j \in NamedPositions(rConf.bins) : j <= k}) = i

\* C21: check_bins returns True exactly when every binary named in the
\* tuple runs with -version to status 0; a None entry launches nothing;
\* the names are run in order up to the first that fails, which raises
\* OSError saying 'not found' when it could not be launched and 'may be
\* corrupted' when it exited with another status.
C21_CheckBins ==
    rpc = "exited" =>
        /\ (rRet.exc = "" /\ rRet.value = TRUE) <=> FailingPositions = {}
        /\ FailingPositions # {} =>
               /\ rRet.exc = "OSError"
               /\ rRet.msg[1] = rConf.bins[LastCheckedPosition]
               /\ rRet.msg[2] = IF rConf.tools[rConf.bins[LastCheckedPosition]] = "missing"
                                THEN "not found on PATH"
                                ELSE "may be corrupted"
        /\ Len(rLog) = Cardinality({k \in NamedPositions(rConf.bins) : k <= LastCheckedPosition})
        /\ \A i \in 1 .. Len(rLog) : rLog[i] = Event("version", rConf.bins[PositionOfLaunch(i)])

\* check_bins((ffmpeg, ffprobe)) ended where ffmpeg exits with another
\* status and ffprobe cannot be launched: ffmpeg alone was run.
C21_Witness ==
    /\ rpc = "exited"
    /\ rConf.entry = "check_bins"
    /\ rConf.bins = <<Ffmpeg, Ffprobe>>
    /\ rConf.tools[Ffmpeg] = "corrupt"
    /\ rConf.tools[Ffprobe] = "missing"
    /\ rRet.exc = "OSError"
    /\ rRet.msg = <<Ffmpeg, "may be corrupted">>
    /\ rLog = <<Event("version", Ffmpeg)>>

(***************************************************************************)
(* Properties of a run over several videos                                 *)
(***************************************************************************)
\* File k of the run is one the entry point can make its output for.
ValidFile(k) ==
    IF rConf.entry = "storyboard-cli" THEN rConf.files[k] = "good"
    ELSE rConf.files[k] \notin NoVideoKinds

\* The run of a command line stopped, by returning or by an exception.
RunOver ==
    /\ rConf.entry \in {"storyboard-cli", "metadata-cli"}
    /\ rpc \in {"exited", "crashed"}
    /\ ToolsAvailable

\* C22: in a run over several videos a video that fails does not keep the
\* later videos from being processed: every valid video has its output, the
\* outputs are in input order, and the return code is 1 exactly when some
\* video failed.
C22_BatchContinues ==
    RunOver =>
        /\ \A k \in 1 .. Len(rConf.files) :
               ValidFile(k) <=> \E i \in 1 .. Len(rLog) : rLog[i] = Event("output", k)
        /\ \A i, j \in 1 .. Len(rLog) :
               (i < j /\ rLog[i].kind = "output" /\ rLog[j].kind = "output") =>
                   rLog[i].arg < rLog[j].arg
        /\ rRet.value = 1 <=> \E k \in 1 .. Len(rConf.files) : ~ValidFile(k)

(***************************************************************************)
(* Calls of humansize and humantime (util.py)                              *)
(***************************************************************************)
UtilCalls == HumanSizeCalls \cup HumanTimeCalls

InitUtil ==
    /\ TileIdle
    /\ ProcIdle
    /\ SBIdle
    /\ VideoIdle
    /\ FrameIdle
    /\ RunIdle
    /\ uCall \in UtilCalls
    /\ upc = "idle"
    /\ uRet = [kind |-> "none"]
    /\ PBIdle

\* humansize(size)
HumanSize ==
    /\ upc = "idle"
    /\ uCall.fn = "humansize"
    /\ uRet' = [kind |-> "returned", type |-> "", value |-> humansize(uCall.size)]
    /\ upc' = "done"
    /\ UNCHANGED <<uCall, pb, pbNow, pbRet, tileVars, sbVars, videoVars, frameVars, runVars, procVars>>

\* humantime(seconds, ndigits, one_hour_digit)
HumanTime ==
    /\ upc = "idle"
    /\ uCall.fn = "humantime"
    /\ uRet' = humantime(uCall.ms, uCall.ndigits, uCall.one_hour_digit)
    /\ upc' = "done"
    /\ UNCHANGED <<uCall, pb, pbNow, pbRet, tileVars, sbVars, videoVars, frameVars, runVars, procVars>>

NextUtil == HumanSize \/ HumanTime

SpecUtil == InitUtil /\ [][NextUtil]_vars

(***************************************************************************)
(* Properties of humansize                                                 *)
(***************************************************************************)
UnitsWithYi == Units \o << <<"Y", "i">> >>

HumanSizeDone == upc = "done" /\ uCall.fn = "humansize"

\* The first unit (0 for bytes) in which the size is below 1024, or the
\* last unit when there is none.
UnitOf(size, last) ==
    CHOOSE u \in 0 .. last :
        /\ u = last \/ Below1024(size.m, size.e - u)
        /\ \A w \in 0 .. u - 1 : ~Below1024(size.m, size.e - w)

\* The least p with p / 10^ndigits >= num / den
LeastAbove(num, den, ndigits) ==
    CHOOSE p \in (num * Pow10(ndigits)) \div den .. (num * Pow10(ndigits)) \div den + 1 :
        /\ p * den >= num * Pow10(ndigits)
        /\ (p - 1) * den < num * Pow10(ndigits)

\* The decimals of a value num / den printed in a unit: 2 below 10,
\* 1 below 100, 0 otherwise; 1 for a value the last unit cannot keep below 1024.
DecimalsOf(num, den) ==
    IF num >= 1024 * den THEN 1
    ELSE IF num < 10 * den THEN 2
    ELSE IF num < 100 * den THEN 1
    ELSE 0

\* The text of the size when the units end with the unit numbered last.
SizeText(size, names, last) ==
    LET u == UnitOf(size, last)
        num == Numer(size.m, size.e - u)
        den == Denom(size.e - u)
    IN  IF u = 0 THEN ToChars(num) \o <<"B">>
        ELSE FormatFixed(LeastAbove(num, den, DecimalsOf(num, den)), DecimalsOf(num, den))
                 \o names[u] \o <<"B">>

\* C23 as stated: the units go through Yi. Sizes of 1024 YiB and more,
\* for which the statement names no unit, are left out.
C23_UnitsThroughYi ==
    (HumanSizeDone /\ (uCall.size.e = 8 => uCall.size.m < 1024)) =>
        uRet.value = SizeText(uCall.size, UnitsWithYi, 8)

\* C23: humansize prints '<n>B' below 1024 and otherwise the size in the
\* first of the units Ki, Mi, Gi, Ti, Pi, Ei, Zi in which it is below 1024,
\* rounded up with 2 decimals below 10, 1 decimal below 100 and none
\* otherwise; a size of 1024 ZiB or more is printed in ZiB, rounded up with
\* 1 decimal.
C23_HumanSize ==
    HumanSizeDone => uRet.value = SizeText(uCall.size, Units, 7)

\* humansize(10000) returned '9.77KiB'.
C23_Witness ==
    /\ HumanSizeDone
    /\ uCall.size = Size(10000, 0)
    /\ uRet.value = <<"9", ".", "7", "7", "K", "i", "B">>

(***************************************************************************)
(* Properties of humantime                                                 *)
(***************************************************************************)
HumanTimeDone == upc = "done" /\ uCall.fn = "humantime"

\* The positions of a character in a text.
PositionsOf(cs, c) == {k \in 1 .. Len(cs) : cs[k] = c}

Least(S) == CHOOSE k \in S : \A j \in S : k <= j
Greatest(S) == CHOOSE k \in S : \A j \in S : k >= j

\* The three fields of a text with two colons.
HoursField(cs) == SubSeq(cs, 1, Least(PositionsOf(cs, ":")) - 1)
MinutesField(cs) ==
    SubSeq(cs, Least(PositionsOf(cs, ":")) + 1, Greatest(PositionsOf(cs, ":")) - 1)
SecondsField(cs) == SubSeq(cs, Greatest(PositionsOf(cs, ":")) + 1, Len(cs))

\* The whole seconds and the decimals of a seconds field.
WholeSeconds(cs) ==
    IF PositionsOf(cs, ".") = {} THEN cs ELSE SubSeq(cs, 1, Least(PositionsOf(cs, ".")) - 1)
DecimalsField(cs) ==
    IF PositionsOf(cs, ".") = {} THEN <<>> ELSE SubSeq(cs, Least(PositionsOf(cs, ".")) + 1, Len(cs))

IsNumeral(cs) == Len(cs) >= 1 /\ \A k \in 1 .. Len(cs) : IsDigit(cs[k])

\* C24: humantime raises ValueError exactly for a negative input; otherwise
\* it returns hours:minutes:seconds with as many decimals as ndigits, the
\* printed minutes and the printed whole seconds below 60, the text worth
\* the input rounded to the nearest value of ndigits decimals, and the hours
\* in two digits, or in one when one_hour_digit is set and they are below 10.
C24_HumanTime ==
    HumanTimeDone =>
        /\ (uRet.kind = "raised" /\ uRet.type = "ValueError") <=> uCall.ms < 0
        /\ uCall.ms >= 0 =>
               /\ uRet.kind = "returned"
               /\ Cardinality(PositionsOf(uRet.value, ":")) = 2
               /\ IsNumeral(HoursField(uRet.value))
               /\ IsNumeral(MinutesField(uRet.value))
               /\ IsNumeral(WholeSeconds(SecondsField(uRet.value)))
               /\ Len(MinutesField(uRet.value)) = 2
               /\ Len(WholeSeconds(SecondsField(uRet.value))) = 2
               /\ Len(DecimalsField(SecondsField(uRet.value))) = uCall.ndigits
               /\ uCall.ndigits > 0 => IsNumeral(DecimalsField(SecondsField(uRet.value)))
               /\ NumeralValue(MinutesField(uRet.value)) < 60
               /\ NumeralValue(WholeSeconds(SecondsField(uRet.value))) < 60
               /\ LET printed == (NumeralValue(HoursField(uRet.value)) * 3600
                                    + NumeralValue(MinutesField(uRet.value)) * 60
                                    + NumeralValue(WholeSeconds(SecondsField(uRet.value))))
                                      * Pow10(uCall.ndigits)
                                  + NumeralValue(DecimalsField(SecondsField(uRet.value)))
                      ahead == printed - (uCall.ms \div 1000) * Pow10(uCall.ndigits)
                      rest == (uCall.ms % 1000) * Pow10(uCall.ndigits)
                  IN  /\ 2 * (ahead * 1000 - rest) <= 1000
                      /\ 2 * (rest - ahead * 1000) <= 1000
               /\ Len(HoursField(uRet.value)) =
                      IF uCall.one_hour_digit /\ uCall.ms < 36000000 THEN 1 ELSE 2

(***************************************************************************)
(* ProgressBar (util.py).  Times are whole ticks of the clock.             *)
(***************************************************************************)
MaxTime == 3
MaxCalls == 4

TotalSizes == {0, 2, 3}
Intervals == {0, 2}
Chunks == {0, 1, 2}

Min(a, b) == IF a < b THEN a ELSE b

\* ProgressBar(totalsize, interval) at the time now. attrs are the names
\* of the attributes the object has; refreshes counts the lines written.
NewProgressBar(totalsize, interval, now) ==
    [totalsize |-> totalsize, processed |-> 0, start |-> now, interval |-> interval,
     last |-> now, last_processed |-> 0, finished |-> FALSE, elapsed |-> 0,
     attrs |-> {"totalsize", "processed", "start", "interval", "_last", "_last_processed"},
     refreshes |-> 0]

\* _update_output: RuntimeError on a finished bar; nothing before the
\* interval has passed; then the speed since the last refresh, the new
\* _last and _last_processed, and the line.
\* processed / totalsize raises ZeroDivisionError for totalsize 0,
\* remaining / speed for speed 0, and humantime raises ValueError for a
\* negative eta.
update_output(p, now) ==
    LET speedSign == IF p.processed > p.last_processed THEN 1
                     ELSE IF p.processed < p.last_processed THEN -1
                     ELSE 0
        marked == [p EXCEPT !.last = now, !.last_processed = p.processed]
        remaining == p.totalsize - p.processed
    IN  IF p.finished THEN [pb |-> p, exc |-> "RuntimeError"]
        ELSE IF now - p.last < p.interval THEN [pb |-> p, exc |-> ""]
        ELSE IF p.totalsize = 0 THEN [pb |-> marked, exc |-> "ZeroDivisionError"]
        ELSE IF speedSign = 0 THEN [pb |-> marked, exc |-> "ZeroDivisionError"]
        ELSE IF remaining * speedSign < 0 THEN [pb |-> marked, exc |-> "ValueError"]
        ELSE [pb |-> [marked EXCEPT !.refreshes = @ + 1], exc |-> ""]

update(p, chunk_size, now) ==
    IF p.finished THEN [pb |-> p, exc |-> "RuntimeError"]
    ELSE update_output([p EXCEPT !.processed = Min(p.processed + chunk_size, p.totalsize)], now)

force_update(p, processed_size, now) ==
    IF p.finished THEN [pb |-> p, exc |-> "RuntimeError"]
    ELSE update_output([p EXCEPT !.processed = Min(processed_size, p.totalsize)], now)

\* The attributes finish deletes.
Deleted == {"processed", "interval", "_last", "_last_processed"}

\* A finish that does not record that it was called.
finish_Unmarked(p, now) ==
    IF p.finished THEN [pb |-> p, exc |-> "RuntimeError"]
    ELSE [pb |-> [p EXCEPT !.elapsed = now - p.start,
                           !.processed = 0, !.interval = 0, !.last = 0, !.last_processed = 0,
                           !.attrs = (@ \ Deleted) \cup {"elapsed"},
                           !.refreshes = @ + 1],
          exc |-> ""]

\* finish: elapsed (an elapsed of 0 stands for the floor of 0.001 s), the
\* four attributes deleted, the flag set, the last line written.
finish(p, now) ==
    IF p.finished THEN [pb |-> p, exc |-> "RuntimeError"]
    ELSE [pb |-> [p EXCEPT !.elapsed = now - p.start,
                           !.processed = 0, !.interval = 0, !.last = 0, !.last_processed = 0,
                           !.attrs = (@ \ Deleted) \cup {"elapsed"},
                           !.finished = TRUE,
                           !.refreshes = @ + 1],
          exc |-> ""]

InitPB ==
    /\ TileIdle
    /\ ProcIdle
    /\ SBIdle
    /\ VideoIdle
    /\ FrameIdle
    /\ RunIdle
    /\ uCall = [fn |-> "none"]
    /\ upc = "idle"
    /\ uRet = [kind |-> "none"]
    /\ pbNow = 0
    /\ \E totalsize \in TotalSizes, interval \in Intervals :
           pb = NewProgressBar(totalsize, interval, 0)
    /\ pbRet = NoCall

\* The clock goes on.
Tick ==
    /\ pbNow < MaxTime
    /\ pbNow' = pbNow + 1
    /\ UNCHANGED <<pb, pbRet, uCall, upc, uRet, tileVars, sbVars, videoVars, frameVars, runVars, procVars>>

Called(op, arg, r) ==
    /\ pbRet.n < MaxCalls
    /\ pb' = r.pb
    /\ pbRet' = [op |-> op, arg |-> arg, exc |-> r.exc, finished |-> "elapsed" \in pb.attrs,
                 n |-> pbRet.n + 1]
    /\ UNCHANGED <<pbNow, uCall, upc, uRet, tileVars, sbVars, videoVars, frameVars, runVars, procVars>>

Update == \E chunk_size \in Chunks : Called("update", chunk_size, update(pb, chunk_size, pbNow))

ForceUpdate ==
    \E processed_size \in 0 .. pb.totalsize :
        Called("force_update", processed_size, force_update(pb, processed_size, pbNow))

Finish == Called("finish", 0, finish(pb, pbNow))

NextPB == Tick \/ Update \/ ForceUpdate \/ Finish

SpecPB == InitPB /\ [][NextPB]_vars

(***************************************************************************)
(* Properties of ProgressBar                                               *)
(***************************************************************************)
\* finish has returned: the object has the attribute elapsed.
FinishReturned == "elapsed" \in pb.attrs

\* C25: once finish has returned every call of update, force_update and
\* finish raises RuntimeError and changes nothing; totalsize stays readable
\* and keeps its value, processed and interval are gone.
C25_FinishOnce ==
    [][/\ pb'.totalsize = pb.totalsize
       /\ "totalsize" \in pb'.attrs
       /\ FinishReturned =>
              /\ pb' = pb
              /\ pbRet' # pbRet => pbRet'.exc = "RuntimeError"
       /\ "elapsed" \in pb'.attrs => pb'.attrs \cap {"processed", "interval"} = {}]_vars

\* update was called on a finished bar and raised RuntimeError.
C25_Witness ==
    /\ FinishReturned
    /\ pbRet.op = "update"
    /\ pbRet.finished
    /\ pbRet.exc = "RuntimeError"
    /\ pb.totalsize = 3
    /\ pb.attrs = {"totalsize", "start", "elapsed"}

\* C29: on a bar that is not finished and has totalsize > 0, update with a
\* chunk >= 0 and force_update with a size in 0 .. totalsize do not raise,
\* whenever the refresh falls, and leave 0 <= processed <= totalsize.
C29_UpdateNeverRaises ==
    (pbRet.op \in {"update", "force_update"} /\ ~pbRet.finished /\ pb.totalsize > 0) =>
        /\ pbRet.exc = ""
        /\ 0 <= pb.processed
        /\ pb.processed <= pb.totalsize

(***************************************************************************)
(* OptionReader (util.py), for one option name                             *)
(***************************************************************************)
\* A value with its Python type; the value itself is kept as a text.
Val(type, text) == [type |-> type, text |-> text]
NoneVal == Val("None", "")

\* What a dict or a section holds for the name: nothing, or a value.
NoEntry == Val("absent", "")

\* The raw texts a config file gives the option.
RawTexts == {"1", "No", "x"}
RawEntries == {NoEntry} \cup {Val("str", t) : t \in RawTexts}

\* A config file: absent from the disk, or its DEFAULT section and the
\* section asked for, which it may have or not.
NoFile == [exists |-> FALSE, has_section |-> FALSE, in_section |-> NoEntry, in_default |-> NoEntry]
ConfigFiles ==
    {NoFile} \cup
    {f \in [exists : {TRUE}, has_section : BOOLEAN, in_section : RawEntries, in_default : RawEntries] :
        ~f.has_section => f.in_section = NoEntry}

\* config_files: None, or up to two paths.
NoFiles == [given |-> FALSE, files |-> <<>>]
ConfigFileLists == {NoFiles} \cup {[given |-> TRUE, files |-> fs] : fs \in SeqsUpTo(ConfigFiles, 2)}

\* cli_args: None, or a namespace where the name is missing, None or a value.
CliArgs == {[given |-> FALSE, entry |-> NoEntry], [given |-> TRUE, entry |-> NoEntry],
            [given |-> TRUE, entry |-> NoneVal], [given |-> TRUE, entry |-> Val("str", "cli")]}

\* defaults: None, or a dict where the name is missing, None or a value.
DefaultDicts == {[given |-> FALSE, entry |-> NoEntry], [given |-> TRUE, entry |-> NoEntry],
                 [given |-> TRUE, entry |-> NoneVal], [given |-> TRUE, entry |-> Val("str", "def")]}

SectionNames == {"None", "sec", "DEFAULT"}
OptTypes == {"None", "str", "int", "float", "bool", "tuple"}

OptionCalls ==
    [fn : {"OptionReader"}, cli_args : CliArgs, config_files : ConfigFileLists,
     section : SectionNames, defaults : DefaultDicts, opttype : OptTypes]

\* config.read(config_files): files that do not exist are passed over; a
\* later file overrides an earlier one, key by key.
RECURSIVE ReadConfig(_, _, _)
ReadConfig(files, k, config) ==
    IF k > Len(files) THEN config
    ELSE LET f == files[k]
         IN  ReadConfig(files, k + 1,
                 IF ~f.exists THEN config
                 ELSE [has_section |-> config.has_section \/ f.has_section,
                       in_section |-> IF f.in_section # NoEntry THEN f.in_section
                                      ELSE config.in_section,
                       in_default |-> IF f.in_default # NoEntry THEN f.in_default
                                      ELSE config.in_default])

EmptyConfig == [has_section |-> FALSE, in_section |-> NoEntry, in_default |-> NoEntry]

\* dict(config.items(section)): the keys of the section and those of DEFAULT
ConfigItems(config) ==
    IF config.in_section # NoEntry THEN config.in_section ELSE config.in_default

\* OptionReader(cli_args, config_files, section, defaults): the three dicts
OptionReader(c) ==
    IF c.section = "DEFAULT" THEN [kind |-> "raised", type |-> "ValueError"]
    ELSE [kind |-> "reader", type |-> "",
          cli_opts |-> IF c.cli_args.given /\ c.cli_args.entry # NoneVal
                       THEN c.cli_args.entry ELSE NoEntry,
          cfg_opts |-> IF c.config_files.given /\ c.section # "None"
                       THEN LET config == ReadConfig(c.config_files.files, 1, EmptyConfig)
                            IN  IF config.has_section THEN ConfigItems(config) ELSE NoEntry
                       ELSE NoEntry,
          default_opts |-> IF c.defaults.given THEN c.defaults.entry ELSE NoEntry]

Returned(v) == [kind |-> "returned", type |-> "", value |-> v]
RaisedError(type) == [kind |-> "raised", type |-> type, value |-> NoneVal]

\* cfg_opt(name, opttype) for a name the config has
cfg_opt(raw, opttype) ==
    IF opttype \in {"None", "str"} THEN Returned(raw)
    ELSE IF opttype = "int"
         THEN IF raw.text = "1" THEN Returned(Val("int", "1")) ELSE RaisedError("ValueError")
    ELSE IF opttype = "float"
         THEN IF raw.text = "1" THEN Returned(Val("float", "1.0")) ELSE RaisedError("ValueError")
    ELSE IF opttype = "bool"
         THEN IF raw.text = "1" THEN Returned(Val("bool", "True"))
              ELSE IF raw.text = "No" THEN Returned(Val("bool", "False"))
              ELSE RaisedError("ValueError")
    ELSE RaisedError("ValueError")

\* An opt that asks the defaults before the config files.
opt_DefaultsFirst(reader, opttype) ==
    IF reader.cli_opts # NoEntry THEN Returned(reader.cli_opts)
    ELSE IF reader.default_opts # NoEntry THEN Returned(reader.default_opts)
    ELSE IF reader.cfg_opts # NoEntry THEN cfg_opt(reader.cfg_opts, opttype)
    ELSE Returned(NoneVal)

opt(reader, opttype) ==
    IF reader.cli_opts # NoEntry THEN Returned(reader.cli_opts)
    ELSE IF reader.cfg_opts # NoEntry THEN cfg_opt(reader.cfg_opts, opttype)
    ELSE IF reader.default_opts # NoEntry THEN Returned(reader.default_opts)
    ELSE Returned(NoneVal)

InitOpt ==
    /\ TileIdle
    /\ ProcIdle
    /\ SBIdle
    /\ VideoIdle
    /\ FrameIdle
    /\ RunIdle
    /\ PBIdle
    /\ uCall \in OptionCalls
    /\ upc = "idle"
    /\ uRet = [kind |-> "none"]

\* OptionReader(cli_args, config_files, section, defaults)
ConstructReader ==
    /\ upc = "idle"
    /\ uCall.fn = "OptionReader"
    /\ uRet' = OptionReader(uCall)
    /\ upc' = IF OptionReader(uCall).kind = "reader" THEN "ready" ELSE "done"
    /\ UNCHANGED <<uCall, pb, pbNow, pbRet, tileVars, sbVars, videoVars, frameVars, runVars, procVars>>

\* reader.opt(name, opttype)
Opt ==
    /\ upc = "ready"
    /\ uRet' = opt(uRet, uCall.opttype)
    /\ upc' = "done"
    /\ UNCHANGED <<uCall, pb, pbNow, pbRet, tileVars, sbVars, videoVars, frameVars, runVars, procVars>>

NextOpt == ConstructReader \/ Opt

SpecOpt == InitOpt /\ [][NextOpt]_vars

(***************************************************************************)
(* Properties of OptionReader                                              *)
(***************************************************************************)
OptDone == upc = "done" /\ uCall.fn = "OptionReader" /\ uCall.section # "DEFAULT"

\* The files of the call that exist and satisfy a condition on the file.
FilesWith(Cond(_)) ==
    {k \in 1 .. Len(uCall.config_files.files) :
        uCall.config_files.files[k].exists /\ Cond(uCall.config_files.files[k])}

HasSection(f) == f.has_section
SetsInSection(f) == f.in_section # NoEntry
SetsInDefault(f) == f.in_default # NoEntry

\* The command line has a value for the name that is not None.
CliValue ==
    IF uCall.cli_args.given /\ uCall.cli_args.entry \notin {NoEntry, NoneVal}
    THEN uCall.cli_args.entry ELSE NoEntry

\* The raw text the config files give the name in the section: that of the
\* last file that sets it there, else that of the last file that sets it
\* in DEFAULT; nothing when no file has the section.
ConfigValue ==
    IF ~uCall.config_files.given \/ uCall.section = "None" \/ FilesWith(HasSection) = {}
    THEN NoEntry
    ELSE IF FilesWith(SetsInSection) # {}
    THEN uCall.config_files.files[Greatest(FilesWith(SetsInSection))].in_section
    ELSE IF FilesWith(SetsInDefault) # {}
    THEN uCall.config_files.files[Greatest(FilesWith(SetsInDefault))].in_default
    ELSE NoEntry

DefaultValue == IF uCall.defaults.given THEN uCall.defaults.entry ELSE NoEntry

\* C26: opt(name) is the command-line value when there is one that is not
\* None; otherwise the config value of the section, converted to opttype
\* (ValueError when it cannot be converted); otherwise the default;
\* otherwise None. A missing section or file gives no config value.
C26_OptPrecedence ==
    OptDone =>
        IF CliValue # NoEntry THEN uRet = Returned(CliValue)
        ELSE IF ConfigValue # NoEntry THEN uRet = cfg_opt(ConfigValue, uCall.opttype)
        ELSE IF DefaultValue # NoEntry THEN uRet = Returned(DefaultValue)
        ELSE uRet = Returned(NoneVal)

\* The command line gave None, the second config file has the section with
\* the value 'No', the defaults have a value too: opt(name, bool) is False.
C26_Witness ==
    /\ OptDone
    /\ uCall.cli_args.given
    /\ uCall.cli_args.entry = NoneVal
    /\ Len(uCall.config_files.files) = 2
    /\ ~uCall.config_files.files[1].exists
    /\ uCall.config_files.files[2].in_section = Val("str", "No")
    /\ uCall.defaults.entry = Val("str", "def")
    /\ uCall.opttype = "bool"
    /\ uRet = Returned(Val("bool", "False"))

(***************************************************************************)
(* Properties of the reading of the frame probe                            *)
(***************************************************************************)
\* The lines of the given kinds among lines 3 to k of the frame probe's output.
LinesOfKind(kinds, k) == {j \in 3 .. k : vFile.probe2.lines[j].kind \in kinds}

\* The lines, among the first upto lines of the frame probe's output after
\* the two header lines, that end a record: the closing braces that leave no
\* brace or bracket open and the one-line values outside of any, as long as
\* no text that is no JSON came before.
RecordEnds(upto) ==
    {k \in 3 .. upto :
        /\ vFile.probe2.lines[k].kind \in {"close", "value"}
        /\ LinesOfKind({"other"}, k) = {}
        /\ Cardinality(LinesOfKind({"open", "object", "array"}, k))
               = Cardinality(LinesOfKind({"close", "endarray"}, k))}

\* An object spread over several lines is counted once: the values parsed
\* are as many as the records that end among the lines read.  With fewer
\* than 40 of them the output is read to its end, unless IndexError is
\* raised at a blank line.
CountedOnce ==
    /\ vScan.parsed = Cardinality(RecordEnds(vScan.read))
    /\ vScan.parsed < ScanFrames =>
           /\ ~vScan.terminated
           /\ vScan.drained = 0
           /\ IF vpc = "failed" THEN vExc.type = "IndexError"
              ELSE vScan.read = Len(vFile.probe2.lines)

\* C27 as stated: the reading of the frame probe stops with the line that
\* completes the 40th frame object: the child is terminated and no later
\* line is read; an object spread over several lines is counted once.
C27_NoLineReadAfterFortieth ==
    (vpc # "new" /\ vScan.ran) =>
        /\ CountedOnce
        /\ vScan.parsed >= ScanFrames =>
               /\ vScan.terminated
               /\ vScan.parsed = ScanFrames
               /\ vScan.read \in RecordEnds(vScan.read)
               /\ vScan.drained = 0

\* C27: the parsing of the frame probe's output stops with the line that
\* completes the 40th value: the child is terminated and no later line is
\* parsed or counted, while communicate() still reads, and drops, the
\* lines the child had written by then; an object spread over several
\* lines is counted once.
C27_StopsAtFortiethFrame ==
    (vpc # "new" /\ vScan.ran) =>
        /\ CountedOnce
        /\ vScan.parsed >= ScanFrames =>
               /\ vScan.terminated
               /\ vScan.parsed = ScanFrames
               /\ vScan.read \in RecordEnds(vScan.read)
               /\ vScan.read + vScan.drained <= Len(vFile.probe2.lines)

\* The output holds 42 frames; the parsing stopped at the 40th, more than a
\* frame before the end, and communicate() read two lines more.
C27_Witness ==
    /\ Ready
    /\ vScan.ran
    /\ vFile.probe2.meta.total = ScanFrames + 2
    /\ vScan.terminated
    /\ vScan.parsed = ScanFrames
    /\ vScan.drained = PipeCapacity
    /\ vScan.read + 5 < Len(vFile.probe2.lines)

(***************************************************************************)
(* Properties of the frames list                                           *)
(***************************************************************************)
\* The count of the last call: that of gen_frames, cols * rows of gen_storyboard.
LastCount ==
    IF sbRet.op = "gen_frames" THEN sbRet.count
    ELSE sbRet.params.tile[1] * sbRet.params.tile[2]

\* Timestamps are fractions of the duration.
Earlier(a, b) == a.num * b.den < b.num * a.den
SameTime(a, b) == a.num * b.den = b.num * a.den

\* C28: after calls of gen_frames and gen_storyboard that all returned
\* normally the frames list is in strictly increasing order of timestamp
\* and, with N the count of the last call, frame i (from 0) is at
\* duration * (2i + 1) / (2N).
C28_FramesInTimeOrder ==
    (sbClean /\ sbRet.op # "none") =>
        /\ \A i, j \in 1 .. Len(sbFrames) : i < j => Earlier(sbFrames[i], sbFrames[j])
        /\ \A i \in 1 .. Len(sbFrames) :
               SameTime(sbFrames[i], [num |-> 2 * (i - 1) + 1, den |-> 2 * LastCount])


(***************************************************************************)
(* Video._get_scan_type as two processes: the parent, which reads the      *)
(* child's standard output line by line, and the ffprobe child, whose      *)
(* standard output and standard error are both pipes                       *)
(***************************************************************************)

\* The most lines the child prints without completing a JSON object.
MaxObjectLines == 2

\* A line either leaves the accumulated text an incomplete JSON object
\* ("part") or completes it ("close").
LineKinds == {"part", "close"}

\* What the child does next: print a line, write diagnostics, or exit.
ChildOps == {"out", "err", "exit"}

Reading == {"header1", "header2", "loop"}

\* proc = subprocess.Popen(ffprobe_args, stdout=PIPE, stderr=PIPE)
Popen ==
    /\ scanPc = "idle"
    /\ scanPc' = "header1"
    /\ \E op \in ChildOps : ffprobe' = [state |-> "running", next |-> op, open |-> 0]
    /\ UNCHANGED <<scanObjs, pipeOut, pipeErr, tileVars, sbVars, videoVars, frameVars, runVars, utilVars>>

\* The child prints one line to its standard output.
ChildWriteOut ==
    /\ ffprobe.state = "running"
    /\ ffprobe.next = "out"
    /\ Len(pipeOut) < PipeCapacity
    /\ \E kind \in LineKinds, op \in ChildOps :
        /\ kind = "part" => ffprobe.open + 1 < MaxObjectLines
        /\ pipeOut' = Append(pipeOut, kind)
        /\ ffprobe' = [ffprobe EXCEPT !.next = op,
                                      !.open = IF kind = "part" THEN @ + 1 ELSE 0]
    /\ UNCHANGED <<scanPc, scanObjs, pipeErr, tileVars, sbVars, videoVars, frameVars, runVars, utilVars>>

\* The child writes one chunk of diagnostics to its standard error.
ChildWriteErr ==
    /\ ffprobe.state = "running"
    /\ ffprobe.next = "err"
    /\ pipeErr < PipeCapacity
    /\ pipeErr' = pipeErr + 1
    /\ \E op \in ChildOps : ffprobe' = [ffprobe EXCEPT !.next = op]
    /\ UNCHANGED <<scanPc, scanObjs, pipeOut, tileVars, sbVars, videoVars, frameVars, runVars, utilVars>>

\* The child exits, which closes its ends of both pipes.
ChildExit ==
    /\ ffprobe.state = "running"
    /\ ffprobe.next = "exit"
    /\ ffprobe' = [ffprobe EXCEPT !.state = "exited"]
    /\ UNCHANGED <<scanPc, scanObjs, pipeOut, pipeErr, tileVars, sbVars, videoVars, frameVars, runVars, utilVars>>

\* The parent after proc.stdout.readline() returned a line of the given
\* kind, or b'' at the end of the file (kind "eof"): the two next(lines) of
\* the header, then the body of the for loop.
AfterLine(pc, objs, kind) ==
    IF pc \in {"header1", "header2"}
    THEN IF kind = "eof"
         THEN [pc |-> "raised", objs |-> objs]
         ELSE [pc |-> IF pc = "header1" THEN "header2" ELSE "loop", objs |-> objs]
    ELSE IF kind = "eof"
         THEN [pc |-> "returned", objs |-> objs]
         ELSE IF kind = "part"
              THEN [pc |-> "loop", objs |-> objs]
              ELSE [pc |-> IF objs + 1 >= ScanFrames THEN "terminate" ELSE "loop",
                    objs |-> objs + 1]

\* proc.stdout.readline(): returns the next line of the pipe, or b'' once
\* the pipe is empty and the child has closed it; blocks otherwise.
ReadLine ==
    /\ scanPc \in Reading
    /\ pipeOut # <<>> \/ ffprobe.state = "exited"
    /\ LET kind == IF pipeOut # <<>> THEN Head(pipeOut) ELSE "eof"
           a == AfterLine(scanPc, scanObjs, kind)
       IN  /\ scanPc' = a.pc
           /\ scanObjs' = a.objs
           /\ pipeOut' = IF pipeOut # <<>> THEN Tail(pipeOut) ELSE pipeOut
    /\ UNCHANGED <<ffprobe, pipeErr, tileVars, sbVars, videoVars, frameVars, runVars, utilVars>>

\* proc.terminate()
Terminate ==
    /\ scanPc = "terminate"
    /\ scanPc' = "communicate"
    /\ ffprobe' = [ffprobe EXCEPT !.state = "exited"]
    /\ UNCHANGED <<scanObjs, pipeOut, pipeErr, tileVars, sbVars, videoVars, frameVars, runVars, utilVars>>

\* proc.communicate(): reads both pipes to their ends and waits for the
\* child; the scan type is then computed from objs and returned.
Communicate ==
    /\ scanPc = "communicate"
    /\ ffprobe.state = "exited"
    /\ scanPc' = "returned"
    /\ pipeOut' = <<>>
    /\ pipeErr' = 0
    /\ UNCHANGED <<scanObjs, ffprobe, tileVars, sbVars, videoVars, frameVars, runVars, utilVars>>

InitProbe ==
    /\ TileIdle
    /\ SBIdle
    /\ VideoIdle
    /\ FrameIdle
    /\ RunIdle
    /\ UtilIdle
    /\ ProcIdle

Parent == Popen \/ ReadLine \/ Terminate \/ Communicate

Child == ChildWriteOut \/ ChildWriteErr \/ ChildExit

NextProbe ==
    \/ Popen
    \/ ReadLine
    \/ Terminate
    \/ Communicate
    \/ ChildWriteOut
    \/ ChildWriteErr
    \/ ChildExit

SpecProbe == InitProbe /\ [][NextProbe]_vars

\* Both processes are scheduled: a statement of the parent that can run
\* does run, and so does a step of the child.
FairProbe == SpecProbe /\ WF_vars(Parent) /\ WF_vars(Child)

(***************************************************************************)
(* Properties of scan-type detection as a process                          *)
(***************************************************************************)

\* The parent is blocked in readline on an empty standard output while the
\* child is blocked writing to its full standard error.
Deadlocked ==
    /\ scanPc \in Reading
    /\ pipeOut = <<>>
    /\ ffprobe.state = "running"
    /\ ffprobe.next = "err"
    /\ pipeErr = PipeCapacity

\* C30: scan-type detection always terminates, whatever the ffprobe child
\* does: it eventually returns a scan type or None, also when the child
\* fills its standard error, prints fewer than 40 frames, or prints fewer
\* than the two header lines.
C30_ScanTypeReturns == <>(scanPc = "returned")

====
